---- MODULE Spec2Model ----
(***************************************************************************)
(* State-machine model of the risk layer, the price-history calculator    *)
(* and the strategies of the trading engine:                               *)
(*   - AutoStopManager   (src/src/risk/auto_stop.rs)                       *)
(*   - PanicSellManager  (src/src/risk/panic_sell.rs)                      *)
(*   - LiquidationControl (src/src/risk/liquidation.rs)                    *)
(*   - DeltaCalculator   (src/src/backtest/delta_calculator.rs)            *)
(*   - MStrikeStrategy   (src/src/strategy/moon_strategies/mstrike.rs)     *)
(*   - HookStrategy      (src/src/strategy/moon_strategies/hook.rs)        *)
(*                                                                         *)
(* Rust objects are records, Option<T> is a set with at most one element   *)
(* (None == {}, Some(x) == {x}), &mut self methods are operators from the  *)
(* object (and the arguments, and the clock reading) to the new object and *)
(* the return value.                                                       *)
(***************************************************************************)
EXTENDS Integers, Sequences, FiniteSets, TLC

VARIABLES
    mgr,        \* the AutoStopManager
    now,        \* the wall clock read by Utc::now(), in clock ticks
    as_call,    \* the last AutoStopManager call: [op, arg, ret]
    recorded,   \* clock readings of every record_error() since new()/restart()
    dc,         \* the DeltaCalculator
    dc_time,    \* the current_time of the last update(), None before the first
    dc_in_order,\* every update() so far: tick no older than the one before, now = tick time
    dc_calc,    \* the calculate_deltas() call whose Deltas the driver holds, until
                \* it hands them on: [current_price, current_time, deltas]
    ms,         \* the MStrikeStrategy, None where none is constructed
    ms_now,     \* the timestamp of the last tick delivered to it, in ms
    ms_n,       \* the number of ticks delivered to it
    ms_call,    \* its last call: [op, arg, ret]
    ms_pre,     \* the strategy as it was before that call
    ms_seen,    \* while strike_start_time is set: the lowest trade price of the
                \* ticks delivered since the tick that set it, and the LastBidEMA
                \* of that tick
    hk,         \* the HookStrategy, None where none is constructed
    hk_now,     \* the timestamp of the last tick delivered to it, in ms
    hk_n,       \* the number of ticks delivered to it
    hk_call,    \* its last call: [op, arg, ret]
    hk_pending, \* a PlaceBuy has been returned and no fill reported since
    hk_pre,     \* the strategy and hk_pending as they were before the last call
    hk_ticks,   \* every tick delivered to it, in the order of delivery
    psm,        \* the PanicSellManager, None where none is constructed
    ps_call,    \* its last call: [op, arg, ret]
    lq,         \* the LiquidationControl, None where none is constructed
    lq_call     \* its last call: [op, arg, ret]

as_vars == <<mgr, now, as_call, recorded>>
dc_vars == <<dc, dc_time, dc_in_order, dc_calc>>
ms_vars == <<ms, ms_now, ms_n, ms_call, ms_pre, ms_seen>>
hk_vars == <<hk, hk_now, hk_n, hk_call, hk_pending, hk_pre, hk_ticks>>
ps_vars == <<psm, ps_call>>
lq_vars == <<lq, lq_call>>
vars == <<mgr, now, as_call, recorded, dc, dc_time, dc_in_order, dc_calc,
          ms, ms_now, ms_n, ms_call, ms_pre, ms_seen,
          hk, hk_now, hk_n, hk_call, hk_pending, hk_pre, hk_ticks,
          psm, ps_call, lq, lq_call>>

None == {}
Some(x) == {x}
is_some(o) == o # {}
is_none(o) == o = {}
unwrap(o) == CHOOSE x \in o : TRUE

(***************************************************************************)
(* Time.  The clock advances in ticks of MinutesPerTick minutes; every     *)
(* Duration of the source is compared in minutes.                          *)
(***************************************************************************)
MinutesPerTick == 30
MaxTime == 3            \* the clock stops advancing at this tick
MaxErrors == 3          \* record_error() calls between two restarts
MaxLevel == 2           \* max_error_level is drawn from 0..MaxLevel
PingLimits == {1}       \* max_ping_ms is drawn from these
Pings == {0, 1, 2}      \* ping samples, in ms: below, at and above the limit
\* restart_after_minutes is drawn from these: unset, one tick, a tick and a half
RestartAfter == {None, Some(30), Some(45)}

MinutesPerHour == 60
Duration_hours(h) == h * MinutesPerHour
Duration_minutes(m) == m
\* now.signed_duration_since(ts), now - ts: in minutes
signed_duration_since(t, ts) == (t - ts) * MinutesPerTick

(***************************************************************************)
(* AutoStopManager                                                         *)
(***************************************************************************)
StopReason == {"None", "ErrorLevelExceeded", "PingTooHigh", "Manual"}

AutoStopManager_new(max_error_level, max_ping_ms, panic_sell_on_stop, restart_after_minutes) ==
    [ max_error_level       |-> max_error_level,
      current_error_level   |-> 0,
      max_ping_ms           |-> max_ping_ms,
      panic_sell_on_stop    |-> panic_sell_on_stop,
      restart_after_minutes |-> restart_after_minutes,
      stopped_at            |-> None,
      stop_reason           |-> "None",
      error_history         |-> << >> ]

AutoStopManager_default == AutoStopManager_new(3, 1000, FALSE, Some(5))

\* <= in place of <: an error exactly one hour old is kept
retain_keep_hour_old(history, t) ==
    SelectSeq(history, LAMBDA ts : signed_duration_since(t, ts) <= Duration_hours(1))

\* error_history.retain(|&ts| now.signed_duration_since(ts) < Duration::hours(1))
retain(history, t) ==
    SelectSeq(history, LAMBDA ts : signed_duration_since(t, ts) < Duration_hours(1))

\* record_error() that stops the manager itself once the level is reached
record_error_stopping(self, t) ==
    LET kept == retain(Append(self.error_history, t), t)
        stopping == Len(kept) >= self.max_error_level /\ is_none(self.stopped_at)
    IN  [self EXCEPT !.error_history = kept,
                     !.current_error_level = Len(kept),
                     !.stopped_at = IF stopping THEN Some(t) ELSE @,
                     !.stop_reason = IF stopping THEN "ErrorLevelExceeded" ELSE @]

record_error(self, t) ==
    LET pushed == Append(self.error_history, t)
        bumped == self.current_error_level + 1   \* overwritten two lines below
        kept   == retain(pushed, t)
    IN  [self EXCEPT !.error_history = kept,
                     !.current_error_level = Len(kept)]

\* the is_none() guard left out
stop_overwrite(self, reason, t) ==
    [self EXCEPT !.stopped_at = Some(t), !.stop_reason = reason]

stop(self, reason, t) ==
    IF is_none(self.stopped_at)
    THEN [self EXCEPT !.stopped_at = Some(t), !.stop_reason = reason]
    ELSE self

\* >= in place of >
check_ping_ge(self, ping_ms, t) ==
    IF ping_ms >= self.max_ping_ms
    THEN [self |-> stop(self, "PingTooHigh", t), ret |-> TRUE]
    ELSE [self |-> self, ret |-> FALSE]

check_ping(self, ping_ms, t) ==
    IF ping_ms > self.max_ping_ms
    THEN [self |-> stop(self, "PingTooHigh", t), ret |-> TRUE]
    ELSE [self |-> self, ret |-> FALSE]

\* > in place of >=
check_errors_gt(self, t) ==
    IF self.current_error_level > self.max_error_level
    THEN [self |-> stop(self, "ErrorLevelExceeded", t), ret |-> TRUE]
    ELSE [self |-> self, ret |-> FALSE]

check_errors(self, t) ==
    IF self.current_error_level >= self.max_error_level
    THEN [self |-> stop(self, "ErrorLevelExceeded", t), ret |-> TRUE]
    ELSE [self |-> self, ret |-> FALSE]

\* > in place of >=
should_restart_gt(self, t) ==
    IF is_some(self.stopped_at) /\ is_some(self.restart_after_minutes)
    THEN signed_duration_since(t, unwrap(self.stopped_at))
            > Duration_minutes(unwrap(self.restart_after_minutes))
    ELSE FALSE

should_restart(self, t) ==
    IF is_some(self.stopped_at) /\ is_some(self.restart_after_minutes)
    THEN signed_duration_since(t, unwrap(self.stopped_at))
            >= Duration_minutes(unwrap(self.restart_after_minutes))
    ELSE FALSE

\* error_history.clear() left out
restart_keep_history(self) ==
    [self EXCEPT !.stopped_at = None, !.stop_reason = "None",
                 !.current_error_level = 0]

restart(self) ==
    [self EXCEPT !.stopped_at = None, !.stop_reason = "None",
                 !.current_error_level = 0, !.error_history = << >>]

is_stopped(self) == is_some(self.stopped_at)
stop_reason(self) == self.stop_reason

(***************************************************************************)
(* f64 values.  Prices are integers; a quotient is kept exactly, as a      *)
(* fraction in lowest terms with a positive denominator, so two values are *)
(* equal exactly when the fractions are.  x/0 is an infinity or NaN.       *)
(***************************************************************************)
Abs(x) == IF x < 0 THEN -x ELSE x

RECURSIVE Gcd(_, _)
Gcd(a, b) == IF b = 0 THEN a ELSE Gcd(b, a % b)

NaN == [k |-> "nan", n |-> 0, d |-> 0]
Inf(sign) == [k |-> "inf", n |-> sign, d |-> 0]
Num(n, d) ==
    LET g == Gcd(Abs(n), Abs(d))
        sg == IF d < 0 THEN -1 ELSE 1
    IN  [k |-> "num", n |-> sg * (n \div g), d |-> sg * (d \div g)]
F(i) == Num(i, 1)

\* a / b on f64 values built from integers
fdiv(a, b) ==
    IF b = 0
    THEN IF a = 0 THEN NaN ELSE Inf(IF a > 0 THEN 1 ELSE -1)
    ELSE Num(a, b)
\* x * 100.0
fmul100(x) == IF x.k = "num" THEN Num(x.n * 100, x.d) ELSE x

\* f64 arithmetic and comparison on these values (the sign of a zero is not kept)
fsign(x) == IF x.n > 0 THEN 1 ELSE IF x.n < 0 THEN -1 ELSE 0
fneg(x) == IF x.k = "nan" THEN NaN ELSE [x EXCEPT !.n = -x.n]
fadd(a, b) ==
    IF a.k = "nan" \/ b.k = "nan" THEN NaN
    ELSE IF a.k = "inf" /\ b.k = "inf" THEN (IF a.n = b.n THEN a ELSE NaN)
    ELSE IF a.k = "inf" THEN a
    ELSE IF b.k = "inf" THEN b
    ELSE Num(a.n * b.d + b.n * a.d, a.d * b.d)
fsub(a, b) == fadd(a, fneg(b))
fmul(a, b) ==
    IF a.k = "nan" \/ b.k = "nan" THEN NaN
    ELSE IF a.k = "inf" \/ b.k = "inf"
         THEN (IF fsign(a) * fsign(b) = 0 THEN NaN ELSE Inf(fsign(a) * fsign(b)))
    ELSE Num(a.n * b.n, a.d * b.d)
fquo(a, b) ==
    IF a.k = "nan" \/ b.k = "nan" THEN NaN
    ELSE IF a.k = "inf" THEN (IF b.k = "inf" THEN NaN
                              ELSE Inf(IF fsign(b) < 0 THEN -a.n ELSE a.n))
    ELSE IF b.k = "inf" THEN F(0)
    ELSE IF b.n = 0 THEN (IF a.n = 0 THEN NaN ELSE Inf(fsign(a)))
    ELSE Num(a.n * b.d, a.d * b.n)
\* a < b, a <= b, a > b, a >= b: false whenever an operand is NaN
flt(a, b) ==
    IF a.k = "nan" \/ b.k = "nan" THEN FALSE
    ELSE IF a.k = "inf" THEN a.n < 0 /\ ~(b.k = "inf" /\ b.n < 0)
    ELSE IF b.k = "inf" THEN b.n > 0
    ELSE a.n * b.d < b.n * a.d
fle(a, b) == a.k # "nan" /\ b.k # "nan" /\ ~flt(b, a)
fgt(a, b) == flt(b, a)
fge(a, b) == fle(b, a)
\* f64::max, f64::min: a NaN operand is ignored
fmax(a, b) == IF a.k = "nan" THEN b ELSE IF b.k = "nan" THEN a ELSE IF flt(a, b) THEN b ELSE a
fmin(a, b) == IF a.k = "nan" THEN b ELSE IF b.k = "nan" THEN a ELSE IF flt(b, a) THEN b ELSE a

(***************************************************************************)
(* DeltaCalculator.  A DateTime is a number of minutes, a symbol a tuple   *)
(* of characters.                                                          *)
(***************************************************************************)
BTC_USDT == <<"B", "T", "C", "_", "U", "S", "D", "T">>
ETH_USDT == <<"E", "T", "H", "_", "U", "S", "D", "T">>

\* str::contains
contains(s, pat) ==
    \E i \in 0..(Len(s) - Len(pat)) : SubSeq(s, i + 1, i + Len(pat)) = pat

PricePoint(timestamp, price) == [timestamp |-> timestamp, price |-> price]

DeltaCalculator_new ==
    [ price_history        |-> << >>,
      btc_price_history    |-> << >>,
      market_price_history |-> << >>,
      max_history_duration |-> Duration_hours(24) ]

\* an `if` in place of the `while let`: at most one point is dropped
pop_front_once(h, cutoff) ==
    IF h # << >> /\ Head(h).timestamp < cutoff THEN Tail(h) ELSE h

\* while let Some(front) = h.front() { if front.timestamp < cutoff { pop_front } else { break } }
RECURSIVE pop_front_while_old(_, _)
pop_front_while_old(h, cutoff) ==
    IF h # << >> /\ Head(h).timestamp < cutoff
    THEN pop_front_while_old(Tail(h), cutoff)
    ELSE h

\* the BTC loop left out
cleanup_skips_btc(self, current_time) ==
    LET cutoff == current_time - self.max_history_duration
    IN  [self EXCEPT
            !.price_history = pop_front_while_old(self.price_history, cutoff),
            !.market_price_history = pop_front_while_old(self.market_price_history, cutoff)]

cleanup(self, current_time) ==
    LET cutoff == current_time - self.max_history_duration
    IN  [self EXCEPT
            !.price_history = pop_front_while_old(self.price_history, cutoff),
            !.btc_price_history = pop_front_while_old(self.btc_price_history, cutoff),
            !.market_price_history = pop_front_while_old(self.market_price_history, cutoff)]

update(self, tick, current_time) ==
    LET point == PricePoint(tick.timestamp, tick.price)
        pushed ==
            [self EXCEPT
                !.price_history = Append(@, point),
                !.btc_price_history =
                    IF contains(tick.symbol, <<"B", "T", "C">>) \/ tick.symbol = BTC_USDT
                    THEN Append(@, point) ELSE @,
                !.market_price_history = Append(@, point)]
    IN  cleanup(pushed, current_time)

\* rfind in place of find: the latest point of the window
RECURSIVE find_price_last(_, _)
find_price_last(h, cutoff) ==
    IF h = << >> THEN None
    ELSE IF h[Len(h)].timestamp >= cutoff THEN Some(h[Len(h)].price)
    ELSE find_price_last(SubSeq(h, 1, Len(h) - 1), cutoff)

\* history.iter().find(|p| p.timestamp >= cutoff).map(|p| p.price)
RECURSIVE find_price(_, _)
find_price(h, cutoff) ==
    IF h = << >> THEN None
    ELSE IF Head(h).timestamp >= cutoff THEN Some(Head(h).price)
    ELSE find_price(Tail(h), cutoff)

calculate_delta_percent(history, current_price, current_time, window) ==
    LET cutoff == current_time - window
        found == find_price(history, cutoff)
        start_price ==
            IF is_some(found) THEN unwrap(found)
            ELSE IF history # << >> THEN Head(history).price
            ELSE current_price
    IN  IF start_price > 0
        THEN fmul100(fdiv(current_price - start_price, start_price))
        ELSE F(0)

RECURSIVE fold_min(_, _)
fold_min(acc, prices) ==
    IF prices = << >> THEN acc
    ELSE fold_min(IF Head(prices) < acc THEN Head(prices) ELSE acc, Tail(prices))

RECURSIVE fold_max(_, _)
fold_max(acc, prices) ==
    IF prices = << >> THEN acc
    ELSE fold_max(IF Head(prices) > acc THEN Head(prices) ELSE acc, Tail(prices))

RECURSIVE prices_since(_, _)
prices_since(h, cutoff) ==
    IF h = << >> THEN << >>
    ELSE IF Head(h).timestamp >= cutoff
         THEN <<Head(h).price>> \o prices_since(Tail(h), cutoff)
         ELSE prices_since(Tail(h), cutoff)

calculate_deltas(self, current_price, current_time) ==
    LET delta_15min == calculate_delta_percent(self.price_history, current_price,
                                               current_time, Duration_minutes(15))
        delta_hourly == calculate_delta_percent(self.price_history, current_price,
                                                current_time, Duration_hours(1))
        delta_3h == calculate_delta_percent(self.price_history, current_price,
                                            current_time, Duration_hours(3))
        btc == self.btc_price_history
        delta_btc ==
            IF btc # << >>
            THEN calculate_delta_percent(btc, btc[Len(btc)].price, current_time,
                                         Duration_hours(1))
            ELSE F(0)
        prices_5m == prices_since(btc, current_time - Duration_minutes(5))
        delta_btc_5m ==
            IF btc # << >> /\ prices_5m # << >>
            THEN LET min == fold_min(Head(prices_5m), prices_5m)
                     max == fold_max(Head(prices_5m), prices_5m)
                 IN  fmul100(fdiv(max - min, min))
            ELSE F(0)
    IN  [ delta_3h     |-> delta_3h,
          delta_hourly |-> delta_hourly,
          delta_15min  |-> delta_15min,
          delta_market |-> delta_hourly,
          delta_btc    |-> delta_btc,
          delta_btc_5m |-> delta_btc_5m ]

(***************************************************************************)
(* MStrikeStrategy.  A DateTime is a number of milliseconds, an f64 a      *)
(* value of the kind above.  A signal is a record.  Panic is not a signal: *)
(* it stands for a call that does not return, because an unwrap() met a    *)
(* None; the fields written before the unwrap() keep their new values.     *)
(* The `reason` text of PlaceBuy is left out.                              *)
(***************************************************************************)
MStrikeDirection == {"Both", "OnlyLong", "OnlyShort"}

MStrikeConfig_default ==
    [ mstrike_depth            |-> F(10),
      mstrike_volume           |-> F(0),
      mstrike_buy_delay        |-> 0,
      mstrike_buy_level        |-> F(0),
      mstrike_buy_relative     |-> TRUE,
      mstrike_sell_level       |-> F(80),
      mstrike_sell_adjust      |-> F(0),
      mstrike_add_hourly_delta |-> F(0),
      mstrike_add_15min_delta  |-> F(0),
      mstrike_add_market_delta |-> F(0),
      mstrike_add_btc_delta    |-> F(0),
      mstrike_direction        |-> "Both",
      mstrike_wait_dip         |-> FALSE,
      mstrike_wait_dip_timeout |-> 10000,
      order_size               |-> F(100),
      use_stop_loss            |-> FALSE,
      use_trailing             |-> FALSE,
      use_take_profit          |-> FALSE ]

MStrikeSignal_NoAction == [sig |-> "NoAction"]
MStrikeSignal_DetectStrike(depth, volume, min_price) ==
    [sig |-> "DetectStrike", depth |-> depth, volume |-> volume, min_price |-> min_price]
MStrikeSignal_PlaceBuy(price, size) == [sig |-> "PlaceBuy", price |-> price, size |-> size]
MStrikeSignal_PlaceSell(price, size) == [sig |-> "PlaceSell", price |-> price, size |-> size]
Panic == [sig |-> "Panic"]

MStrikeStrategy_new(config) ==
    [ config |-> config,
      state  |-> [ last_bid_ema             |-> None,
                   bid_history              |-> << >>,
                   min_price_during_strike  |-> None,
                   strike_start_time        |-> None,
                   strike_volume            |-> F(0),
                   price_before_strike      |-> None,
                   active_order_id          |-> None,
                   buy_price                |-> None,
                   position_size            |-> F(0),
                   delta_hourly             |-> F(0),
                   delta_15min              |-> F(0),
                   delta_market             |-> F(0),
                   delta_btc                |-> F(0),
                   waiting_for_dip_reversal |-> FALSE,
                   dip_wait_start           |-> None,
                   last_price_before_dip    |-> None ] ]

MStrikeStrategy_default == MStrikeStrategy_new(MStrikeConfig_default)

update_deltas(self, deltas) ==
    [self EXCEPT !.state.delta_hourly = deltas.delta_hourly,
                 !.state.delta_15min  = deltas.delta_15min,
                 !.state.delta_market = deltas.delta_market,
                 !.state.delta_btc    = deltas.delta_btc]

\* the oldest sample is never dropped
update_bid_history_unbounded(self, timestamp, bid) ==
    [self EXCEPT !.state.bid_history = Append(@, <<timestamp, bid>>)]

update_bid_history(self, timestamp, bid) ==
    LET pushed == Append(self.state.bid_history, <<timestamp, bid>>)
    IN  [self EXCEPT !.state.bid_history =
                        IF Len(pushed) > 10 THEN Tail(pushed) ELSE pushed]

\* for &bid in recent_bids.iter().skip(1) { ema = bid * multiplier + ema * (1 - multiplier) }
RECURSIVE ema_fold(_, _, _)
ema_fold(ema, bids, multiplier) ==
    IF bids = << >> THEN ema
    ELSE ema_fold(fadd(fmul(Head(bids), multiplier),
                       fmul(ema, fsub(F(1), multiplier))),
                  Tail(bids), multiplier)

update_last_bid_ema(self, current_bid) ==
    LET h == self.state.bid_history
        n == Len(h)
        bids == [i \in 1..n |-> h[i][2]]
        prev_bid == IF n >= 2 THEN bids[n - 1] ELSE bids[n]
        multiplier == fquo(F(2), fadd(F(4), F(1)))
        recent_bids == SubSeq(bids, (IF n > 4 THEN n - 4 ELSE 0) + 1, n)
        ema == ema_fold(Head(recent_bids), Tail(recent_bids), multiplier)
        last == self.state.last_bid_ema
    IN  IF n < 4 THEN self
        ELSE IF is_some(last)
             THEN IF flt(prev_bid, unwrap(last))
                  THEN [self EXCEPT !.state.last_bid_ema = Some(prev_bid)]
                  ELSE [self EXCEPT !.state.last_bid_ema = Some(ema)]
             ELSE [self EXCEPT !.state.last_bid_ema = Some(ema)]

\* the sum is not clamped to 0.1
calculate_effective_depth_unclamped(self) ==
    fadd(fadd(fadd(fadd(self.config.mstrike_depth,
        fmul(self.state.delta_hourly, self.config.mstrike_add_hourly_delta)),
        fmul(self.state.delta_15min, self.config.mstrike_add_15min_delta)),
        fmul(self.state.delta_market, self.config.mstrike_add_market_delta)),
        fmul(self.state.delta_btc, self.config.mstrike_add_btc_delta))

calculate_effective_depth(self) ==
    LET d0 == self.config.mstrike_depth
        d1 == fadd(d0, fmul(self.state.delta_hourly, self.config.mstrike_add_hourly_delta))
        d2 == fadd(d1, fmul(self.state.delta_15min, self.config.mstrike_add_15min_delta))
        d3 == fadd(d2, fmul(self.state.delta_market, self.config.mstrike_add_market_delta))
        d4 == fadd(d3, fmul(self.state.delta_btc, self.config.mstrike_add_btc_delta))
    IN  fmax(d4, Num(1, 10))

\* called only after the caller's own price_before_strike.unwrap() has succeeded
calculate_sell_price(self, min_price, depth) ==
    fmul(min_price,
         fadd(F(1), fquo(fquo(fmul(depth, self.config.mstrike_sell_level), F(100)), F(100))))

\* the relative price is counted up from price_before_strike
place_buy_order_from_before(self, min_price, depth) ==
    IF is_none(self.state.price_before_strike)
    THEN [self |-> self, ret |-> Some(Panic)]
    ELSE
    LET price_before == unwrap(self.state.price_before_strike)
        level == self.config.mstrike_buy_level
        level_from_min == fmul(depth, fquo(level, F(100)))
        buy_price ==
            IF self.config.mstrike_buy_relative
            THEN IF level = F(0)
                 THEN min_price
                 ELSE fmul(price_before, fadd(F(1), fquo(level_from_min, F(100))))
            ELSE fmul(price_before, fsub(F(1), fquo(level, F(100))))
    IN  [ self |-> [self EXCEPT !.state.buy_price = Some(buy_price),
                                !.state.position_size = self.config.order_size],
          ret  |-> Some(MStrikeSignal_PlaceBuy(buy_price, self.config.order_size)) ]

place_buy_order(self, min_price, depth) ==
    IF is_none(self.state.price_before_strike)
    THEN [self |-> self, ret |-> Some(Panic)]
    ELSE
    LET price_before == unwrap(self.state.price_before_strike)
        level == self.config.mstrike_buy_level
        level_from_min == fmul(depth, fquo(level, F(100)))
        buy_price ==
            IF self.config.mstrike_buy_relative
            THEN IF level = F(0)
                 THEN min_price
                 ELSE fmul(min_price, fadd(F(1), fquo(level_from_min, F(100))))
            ELSE fmul(price_before, fsub(F(1), fquo(level, F(100))))
    IN  [ self |-> [self EXCEPT !.state.buy_price = Some(buy_price),
                                !.state.position_size = self.config.order_size],
          ret  |-> Some(MStrikeSignal_PlaceBuy(buy_price, self.config.order_size)) ]

\* ((price_before - min_price) / price_before) * 100.0
strike_depth(price_before, min_price) ==
    fmul(fquo(fsub(price_before, min_price), price_before), F(100))

detect_strike(self, tick) ==
    IF is_none(self.state.last_bid_ema)
    THEN [self |-> self, ret |-> None]
    ELSE
    LET timestamp == tick.timestamp
        current_price == tick.price
        volume == tick.volume
        last_bid_ema == unwrap(self.state.last_bid_ema)
        effective_depth == calculate_effective_depth(self)
        started ==
            [self EXCEPT !.state.strike_start_time = Some(timestamp),
                         !.state.min_price_during_strike = Some(current_price),
                         !.state.price_before_strike = Some(last_bid_ema),
                         !.state.strike_volume = volume]
        tracked ==
            IF is_some(self.state.min_price_during_strike)
               /\ flt(current_price, unwrap(self.state.min_price_during_strike))
            THEN [self EXCEPT !.state.min_price_during_strike = Some(current_price),
                              !.state.strike_volume = fadd(@, volume)]
            ELSE self
        min_price == unwrap(tracked.state.min_price_during_strike)
        price_before == unwrap(tracked.state.price_before_strike)
        depth == strike_depth(price_before, min_price)
        signal == MStrikeSignal_DetectStrike(depth, tracked.state.strike_volume, min_price)
        waiting ==
            [tracked EXCEPT !.state.waiting_for_dip_reversal = TRUE,
                            !.state.dip_wait_start = Some(timestamp),
                            !.state.last_price_before_dip = Some(current_price)]
    IN  IF is_none(self.state.min_price_during_strike) /\ flt(current_price, last_bid_ema)
        THEN [self |-> started, ret |-> None]
        ELSE IF is_none(tracked.state.min_price_during_strike)
                \/ is_none(tracked.state.price_before_strike)
        THEN [self |-> tracked, ret |-> Some(Panic)]
        ELSE IF fge(depth, effective_depth)
                /\ fge(tracked.state.strike_volume, self.config.mstrike_volume)
        THEN IF self.config.mstrike_buy_delay > 0
             THEN [self |-> tracked, ret |-> Some(signal)]
             ELSE IF self.config.mstrike_wait_dip
             THEN [self |-> waiting, ret |-> Some(signal)]
             ELSE place_buy_order(tracked, min_price, depth)
        ELSE [self |-> tracked, ret |-> None]

reset_strike_state(self) ==
    [self EXCEPT !.state.min_price_during_strike = None,
                 !.state.strike_start_time = None,
                 !.state.strike_volume = F(0),
                 !.state.price_before_strike = None,
                 !.state.waiting_for_dip_reversal = FALSE,
                 !.state.dip_wait_start = None,
                 !.state.last_price_before_dip = None]

\* the timeout has passed as soon as it is reached
elapsed_exceeds_ge(millis, timeout) == IF millis < 0 THEN TRUE ELSE millis >= timeout

\* (timestamp - wait_start).num_milliseconds() as u64 > timeout: a negative number of
\* milliseconds wraps to 2^64 minus its size, above every timeout below 2^63
elapsed_exceeds(millis, timeout) == IF millis < 0 THEN TRUE ELSE millis > timeout

check_dip_reversal(self, tick) ==
    LET timestamp == tick.timestamp
        current_price == tick.price
        timed_out ==
            \E wait_start \in self.state.dip_wait_start :
                elapsed_exceeds(timestamp - wait_start, self.config.mstrike_wait_dip_timeout)
        reversal ==
            \E last_price \in self.state.last_price_before_dip :
                fgt(current_price, last_price)
        left == [self EXCEPT !.state.waiting_for_dip_reversal = FALSE]
        min_price == unwrap(left.state.min_price_during_strike)
        depth == strike_depth(unwrap(left.state.price_before_strike), min_price)
        placed == place_buy_order(left, min_price, depth)
    IN  IF timed_out
        THEN [self |-> reset_strike_state(self), ret |-> MStrikeSignal_NoAction]
        ELSE IF reversal
        THEN IF is_none(left.state.min_price_during_strike)
                \/ is_none(left.state.price_before_strike)
             THEN [self |-> left, ret |-> Panic]
             ELSE [ self |-> placed.self,
                    ret  |-> IF is_some(placed.ret) THEN unwrap(placed.ret)
                             ELSE MStrikeSignal_NoAction ]
        ELSE [self |-> self, ret |-> MStrikeSignal_NoAction]

manage_position(self, tick) ==
    LET current_price == tick.price
        min_price == unwrap(self.state.min_price_during_strike)
        depth == strike_depth(unwrap(self.state.price_before_strike), min_price)
        sell_price == calculate_sell_price(self, min_price, depth)
    IN  IF is_none(self.state.buy_price)
           \/ is_none(self.state.min_price_during_strike)
           \/ is_none(self.state.price_before_strike)
        THEN [self |-> self, ret |-> Panic]
        ELSE IF fge(current_price, sell_price)
        THEN [self |-> self, ret |-> MStrikeSignal_PlaceSell(sell_price, self.state.position_size)]
        ELSE [self |-> self, ret |-> MStrikeSignal_NoAction]

\* the strike is tracked before the position is looked at
on_tick_tracks_first(self, tick, deltas) ==
    LET timestamp == tick.timestamp
        current_price == tick.price
        current_bid == IF is_some(tick.best_bid) THEN unwrap(tick.best_bid)
                       ELSE current_price
        updated == update_last_bid_ema(
                       update_bid_history(update_deltas(self, deltas), timestamp, current_bid),
                       current_bid)
        detected == detect_strike(updated, tick)
    IN  IF updated.state.waiting_for_dip_reversal
        THEN check_dip_reversal(updated, tick)
        ELSE IF is_some(detected.ret) /\ unwrap(detected.ret) # Panic
        THEN [self |-> detected.self, ret |-> unwrap(detected.ret)]
        ELSE IF is_some(detected.self.state.buy_price)
        THEN manage_position(detected.self, tick)
        ELSE [ self |-> detected.self,
               ret  |-> IF is_some(detected.ret) THEN unwrap(detected.ret)
                        ELSE MStrikeSignal_NoAction ]

MStrikeStrategy_on_tick(self, tick, deltas) ==
    LET timestamp == tick.timestamp
        current_price == tick.price
        current_bid == IF is_some(tick.best_bid) THEN unwrap(tick.best_bid)
                       ELSE current_price
        updated == update_last_bid_ema(
                       update_bid_history(update_deltas(self, deltas), timestamp, current_bid),
                       current_bid)
        detected == detect_strike(updated, tick)
    IN  IF is_some(updated.state.buy_price)
        THEN manage_position(updated, tick)
        ELSE IF updated.state.waiting_for_dip_reversal
        THEN check_dip_reversal(updated, tick)
        ELSE [ self |-> detected.self,
               ret  |-> IF is_some(detected.ret) THEN unwrap(detected.ret)
                        ELSE MStrikeSignal_NoAction ]

MStrikeStrategy_on_buy_filled(self, price, size) ==
    [self EXCEPT !.state.buy_price = Some(price),
                 !.state.position_size = size,
                 !.state.active_order_id = Some(0)]

\* reset_strike_state() left out
on_sell_filled_keeps_strike(self) ==
    [self EXCEPT !.state.buy_price = None,
                 !.state.position_size = F(0),
                 !.state.active_order_id = None]

MStrikeStrategy_on_sell_filled(self) ==
    reset_strike_state([self EXCEPT !.state.buy_price = None,
                                    !.state.position_size = F(0),
                                    !.state.active_order_id = None])

(***************************************************************************)
(* HookStrategy.  A DateTime and a Duration are numbers of milliseconds.   *)
(* Signals and Panic are as for MStrikeStrategy; DetectHook and            *)
(* CancelOrder are never constructed by the source.                        *)
(***************************************************************************)
HookDirection == {"Long", "Short", "Both"}

HookConfig_default ==
    [ hook_time_frame          |-> 2000,
      hook_detect_depth        |-> F(5),
      hook_detect_depth_max    |-> F(0),
      hook_initial_price       |-> F(25),
      hook_price_distance      |-> F(10),
      hook_price_roll_back     |-> F(33),
      hook_price_roll_back_max |-> F(0),
      hook_roll_back_wait      |-> 100,
      hook_anti_pump           |-> FALSE,
      hook_drop_min            |-> F(0),
      hook_drop_max            |-> F(0),
      hook_direction           |-> "Long",
      hook_opposite_order      |-> FALSE,
      hook_interpolate         |-> 0,
      buy_order_reduce         |-> 100,
      min_reduced_size         |-> F(0),
      hook_sell_level          |-> F(75),
      hook_sell_fixed          |-> FALSE,
      hook_replace_delay       |-> F(0),
      hook_raise_wait          |-> F(0),
      hook_part_filled_delay   |-> 0,
      hook_repeat_after_sell   |-> FALSE,
      hook_repeat_if_profit    |-> F(0),
      order_size               |-> F(100),
      buy_modifier             |-> F(-3),
      use_stop_loss            |-> FALSE,
      use_trailing             |-> FALSE ]

HookSignal_NoAction == [sig |-> "NoAction"]
HookSignal_PlaceBuy(price, size) == [sig |-> "PlaceBuy", price |-> price, size |-> size]
HookSignal_ReplaceBuy(new_price) == [sig |-> "ReplaceBuy", new_price |-> new_price]
HookSignal_PlaceSell(price, size) == [sig |-> "PlaceSell", price |-> price, size |-> size]

HookStrategy_new(config) ==
    [ config |-> config,
      state  |-> [ price_window          |-> << >>,
                   volume_window         |-> << >>,
                   strike_detected       |-> FALSE,
                   strike_detection_time |-> None,
                   strike_depth          |-> F(0),
                   strike_min_price      |-> F(0),
                   strike_max_price      |-> F(0),
                   strike_rollback_price |-> None,
                   deltas_at_detection   |-> None,
                   corridor_upper        |-> None,
                   corridor_lower        |-> None,
                   initial_buy_price     |-> None,
                   active_order_id       |-> None,
                   buy_price             |-> None,
                   position_size         |-> F(0),
                   repeat_orders         |-> << >> ] ]

HookStrategy_default == HookStrategy_new(HookConfig_default)

\* > in place of >=: an entry exactly cutoff_time old is dropped too
RECURSIVE pop_front_through(_, _)
pop_front_through(w, cutoff_time) ==
    IF w # << >> /\ ~(Head(w)[1] > cutoff_time)
    THEN pop_front_through(Tail(w), cutoff_time)
    ELSE w

\* while let Some(&(time, _)) = w.front() { if time >= cutoff_time { break } w.pop_front() }
RECURSIVE pop_front_until(_, _)
pop_front_until(w, cutoff_time) ==
    IF w # << >> /\ ~(Head(w)[1] >= cutoff_time)
    THEN pop_front_until(Tail(w), cutoff_time)
    ELSE w

update_window(self, timestamp, price, volume) ==
    LET cutoff_time == timestamp - self.config.hook_time_frame
    IN  [self EXCEPT
            !.state.price_window =
                pop_front_until(Append(@, <<timestamp, price>>), cutoff_time),
            !.state.volume_window =
                pop_front_until(Append(@, <<timestamp, volume>>), cutoff_time)]

\* w.iter().map(|(_, v)| *v)
second_of(w) == [i \in 1..Len(w) |-> w[i][2]]

\* iter().fold(init, |a, &b| a.max(b)), a.min(b), and sum()
RECURSIVE fold_fmax(_, _)
fold_fmax(a, values) ==
    IF values = << >> THEN a ELSE fold_fmax(fmax(a, Head(values)), Tail(values))
RECURSIVE fold_fmin(_, _)
fold_fmin(a, values) ==
    IF values = << >> THEN a ELSE fold_fmin(fmin(a, Head(values)), Tail(values))
RECURSIVE fold_fadd(_, _)
fold_fadd(a, values) ==
    IF values = << >> THEN a ELSE fold_fadd(fadd(a, Head(values)), Tail(values))

\* every hook_interpolate taken as mode 0
calculate_corridor_mode0(self) ==
    LET max_price == self.state.strike_max_price
        min_price == self.state.strike_min_price
        initial_pct == fquo(self.config.hook_initial_price, F(100))
    IN  [self EXCEPT !.state.corridor_upper = Some(max_price),
                     !.state.corridor_lower = Some(min_price),
                     !.state.initial_buy_price =
                         Some(fadd(min_price, fmul(fsub(max_price, min_price), initial_pct)))]

calculate_corridor(self) ==
    LET depth == self.state.strike_depth
        max_price == self.state.strike_max_price
        min_price == self.state.strike_min_price
        rollback == IF is_some(self.state.strike_rollback_price)
                    THEN unwrap(self.state.strike_rollback_price) ELSE max_price
        initial_pct == fquo(self.config.hook_initial_price, F(100))
        distance == fquo(fmul(depth, self.config.hook_price_distance), F(100))
        window == self.state.price_window
        current == IF window # << >> THEN window[Len(window)][2] ELSE max_price
        initial0 == fadd(min_price, fmul(fsub(max_price, min_price), initial_pct))
        initial1 == fsub(rollback, fmul(fsub(rollback, min_price), initial_pct))
        initial4 == fadd(min_price, fmul(fsub(rollback, min_price), initial_pct))
        span == fmul(distance, fquo(max_price, F(100)))
        mode == self.config.hook_interpolate
        corridor ==
            IF mode = 0 THEN <<max_price, min_price, initial0>>
            ELSE IF mode = 1 THEN <<rollback, min_price, initial1>>
            ELSE IF mode = 2 THEN <<fadd(initial0, span), fsub(initial0, span), initial0>>
            ELSE IF mode = 3
            THEN << fmul(current, fadd(F(1), fquo(distance, F(100)))),
                    fmul(current, fsub(F(1), fquo(distance, F(100)))),
                    fmul(current, fsub(F(1), initial_pct)) >>
            ELSE IF mode = 4
            THEN << fmax(fquo(fadd(initial4, rollback), F(2)), initial4),
                    fmin(fsub(initial4, span), initial4),
                    initial4 >>
            ELSE <<max_price, min_price, initial0>>
    IN  [self EXCEPT !.state.corridor_upper = Some(corridor[1]),
                     !.state.corridor_lower = Some(corridor[2]),
                     !.state.initial_buy_price = Some(corridor[3])]

calculate_order_size(self) ==
    LET total_volume == fold_fadd(F(0), second_of(self.state.volume_window))
        time_window_ms == F(self.config.hook_time_frame)
        avg_volume_per_interval ==
            fmul(fquo(total_volume, time_window_ms), F(self.config.buy_order_reduce))
    IN  IF self.config.buy_order_reduce = 0
        THEN self.config.order_size
        ELSE fmin(self.config.order_size, avg_volume_per_interval)

\* a depth equal to hook_detect_depth is refused too
depth_not_above(depth, detect_depth) == fle(depth, detect_depth)

\* if depth < self.config.hook_detect_depth { return None }
depth_below(depth, detect_depth) == flt(depth, detect_depth)

\* the anti-pump filter refuses every detection
anti_pump_rejects(self) == self.config.hook_anti_pump

\* the bodies of the hook_anti_pump and hook_drop_min/max tests are empty: no
\* detection is refused
filters_reject(self) ==
    \/ (self.config.hook_anti_pump /\ FALSE)
    \/ ((fgt(self.config.hook_drop_min, F(0)) \/ fgt(self.config.hook_drop_max, F(0)))
        /\ FALSE)

\* each intermediate value is computed once and bound: { e : x \in {v} } is
\* the singleton of e with x = v
detect_hook(self, tick, deltas) ==
    IF Len(self.state.price_window) < 2
    THEN [self |-> self, ret |-> None]
    ELSE unwrap({ unwrap({
        IF depth_below(depth, self.config.hook_detect_depth)
        THEN [self |-> self, ret |-> None]
        ELSE IF fgt(self.config.hook_detect_depth_max, F(0))
                /\ fgt(depth, self.config.hook_detect_depth_max)
        THEN [self |-> self, ret |-> None]
        ELSE IF filters_reject(self)
        THEN [self |-> self, ret |-> None]
        ELSE unwrap({ unwrap({
            IF flt(order_size, self.config.min_reduced_size)
            THEN [self |-> detected, ret |-> None]
            ELSE [ self |-> detected,
                   ret  |-> Some(HookSignal_PlaceBuy(
                                unwrap(detected.state.initial_buy_price), order_size)) ]
            : order_size \in {calculate_order_size(detected)} })
          : detected \in {
              calculate_corridor(
                [self EXCEPT
                    !.state.strike_detected = TRUE,
                    !.state.strike_detection_time = Some(tick.timestamp),
                    !.state.strike_depth = depth,
                    !.state.strike_min_price = min_price,
                    !.state.strike_max_price = max_price,
                    !.state.deltas_at_detection = Some(deltas),
                    !.state.strike_rollback_price =
                        Some(fsub(max_price,
                                  fmul(fquo(fmul(depth, self.config.hook_price_roll_back),
                                            F(100)),
                                       fquo(max_price, F(100)))))]) } })
        : depth \in {fmul(fquo(fsub(max_price, min_price), max_price), F(100))} })
      : max_price \in {fold_fmax(F(0), second_of(self.state.price_window))},
        min_price \in {fold_fmin(Inf(1), second_of(self.state.price_window))} })

\* corridor_lower and initial_buy_price are set wherever corridor_upper is
manage_corridor_order(self, tick) ==
    LET current_price == tick.price
        upper == unwrap(self.state.corridor_upper)
        lower == unwrap(self.state.corridor_lower)
    IN  IF is_none(self.state.corridor_upper) \/ is_none(self.state.corridor_lower)
           \/ is_none(self.state.initial_buy_price)
        THEN [self |-> self, ret |-> Panic]
        ELSE IF fle(current_price, lower)
        THEN [self |-> self, ret |-> HookSignal_ReplaceBuy(fmul(lower, Num(99, 100)))]
        ELSE IF fge(current_price, upper)
        THEN [self |-> self, ret |-> HookSignal_ReplaceBuy(fmul(upper, Num(99, 100)))]
        ELSE [self |-> self, ret |-> HookSignal_NoAction]

\* hook_sell_fixed ignored: the sell price is always taken from buy_price
manage_position_from_buy_price(self, tick) ==
    LET buy_price == unwrap(self.state.buy_price)
        gain == fadd(F(1), fquo(fquo(fmul(self.state.strike_depth, self.config.hook_sell_level),
                                     F(100)), F(100)))
        sell_price == fmul(buy_price, gain)
    IN  IF is_none(self.state.buy_price)
        THEN [self |-> self, ret |-> Panic]
        ELSE IF fge(tick.price, sell_price)
        THEN [self |-> self, ret |-> HookSignal_PlaceSell(sell_price, self.state.position_size)]
        ELSE [self |-> self, ret |-> HookSignal_NoAction]

HookStrategy_manage_position(self, tick) ==
    LET current_price == tick.price
        buy_price == unwrap(self.state.buy_price)
        depth == self.state.strike_depth
        gain == fadd(F(1), fquo(fquo(fmul(depth, self.config.hook_sell_level), F(100)), F(100)))
        sell_price == IF self.config.hook_sell_fixed
                      THEN fmul(self.state.strike_min_price, gain)
                      ELSE fmul(buy_price, gain)
    IN  IF is_none(self.state.buy_price)
        THEN [self |-> self, ret |-> Panic]
        ELSE IF fge(current_price, sell_price)
        THEN [self |-> self, ret |-> HookSignal_PlaceSell(sell_price, self.state.position_size)]
        ELSE [self |-> self, ret |-> HookSignal_NoAction]

\* a new detection is permitted at any time
can_detect_again_always(self, timestamp) == TRUE

can_detect_again(self, timestamp) ==
    IF is_some(self.state.strike_detection_time)
    THEN timestamp - unwrap(self.state.strike_detection_time) >= self.config.hook_time_frame
    ELSE TRUE

\* the corridor branch is taken whenever a corridor is set, and moves the order
\* on every tick
on_tick_moves_order(self, tick, deltas) ==
    unwrap({
        IF is_some(updated.state.buy_price)
        THEN HookStrategy_manage_position(updated, tick)
        ELSE IF is_some(updated.state.corridor_upper)
        THEN [ self |-> updated,
               ret  |-> HookSignal_ReplaceBuy(fmul(tick.price, Num(99, 100))) ]
        ELSE IF ~updated.state.strike_detected \/ can_detect_again(updated, tick.timestamp)
        THEN unwrap({ [ self |-> detected.self,
                        ret  |-> IF is_some(detected.ret) THEN unwrap(detected.ret)
                                 ELSE HookSignal_NoAction ]
                      : detected \in {detect_hook(updated, tick, deltas)} })
        ELSE [self |-> updated, ret |-> HookSignal_NoAction]
      : updated \in {update_window(self, tick.timestamp, tick.price, tick.volume)} })

HookStrategy_on_tick(self, tick, deltas) ==
    unwrap({
        IF is_some(updated.state.buy_price)
        THEN HookStrategy_manage_position(updated, tick)
        ELSE IF is_some(updated.state.active_order_id)
                /\ is_some(updated.state.corridor_upper)
        THEN manage_corridor_order(updated, tick)
        ELSE IF ~updated.state.strike_detected \/ can_detect_again(updated, tick.timestamp)
        THEN unwrap({ [ self |-> detected.self,
                        ret  |-> IF is_some(detected.ret) THEN unwrap(detected.ret)
                                 ELSE HookSignal_NoAction ]
                      : detected \in {detect_hook(updated, tick, deltas)} })
        ELSE [self |-> updated, ret |-> HookSignal_NoAction]
      : updated \in {update_window(self, tick.timestamp, tick.price, tick.volume)} })

HookStrategy_on_buy_filled(self, price, size) ==
    [self EXCEPT !.state.buy_price = Some(price),
                 !.state.position_size = size,
                 !.state.active_order_id = Some(0)]

\* utc_now is the reading of Utc::now(); ret is Some(Panic) when the call does
\* not return
RepeatOrderState(buy_price, sell_price, placed_at) ==
    [buy_price |-> buy_price, sell_price |-> sell_price, placed_at |-> placed_at]

HookStrategy_on_sell_filled(self, utc_now) ==
    IF is_none(self.state.buy_price)
    THEN [self |-> self, ret |-> Some(Panic)]
    ELSE
    LET buy_price == unwrap(self.state.buy_price)
        repeated ==
            IF self.config.hook_repeat_after_sell
            THEN [self EXCEPT !.state.repeat_orders =
                                 Append(@, RepeatOrderState(buy_price, F(0), utc_now))]
            ELSE self
    IN  [ self |-> [repeated EXCEPT !.state.buy_price = None,
                                    !.state.position_size = F(0),
                                    !.state.active_order_id = None],
          ret  |-> None ]

(***************************************************************************)
(* PanicSellManager.  An f64 is a value of the kind above.                 *)
(***************************************************************************)
\* f64::abs
fabs(x) == IF x.k = "nan" THEN NaN ELSE [x EXCEPT !.n = Abs(x.n)]

PanicSellManager_new(enabled, drop_to_percent, spread_percent, auto_panic_if_drop, panic_if_bids_drop) ==
    [ enabled            |-> enabled,
      drop_to_percent    |-> drop_to_percent,
      spread_percent     |-> spread_percent,
      auto_panic_if_drop |-> auto_panic_if_drop,
      panic_if_bids_drop |-> panic_if_bids_drop ]

PanicSellManager_default ==
    [ enabled            |-> FALSE,
      drop_to_percent    |-> Num(102, 100),
      spread_percent     |-> Num(1, 100),
      auto_panic_if_drop |-> None,
      panic_if_bids_drop |-> None ]

calculate_panic_price(self, buy_price) ==
    LET target_price == fmul(buy_price, self.drop_to_percent)
    IN  fmul(target_price, fsub(F(1), self.spread_percent))

drop_threshold_signed(buy_price, threshold) ==
    fmul(buy_price, fsub(F(1), fquo(threshold, F(100))))
drop_threshold(buy_price, threshold) ==
    fmul(buy_price, fsub(F(1), fquo(fabs(threshold), F(100))))
bid_threshold(buy_price, threshold) ==
    fmul(buy_price, fadd(F(1), fquo(threshold, F(100))))

should_panic_sell(self, buy_price, current_price, best_bid) ==
    IF ~self.enabled \/ fle(buy_price, F(0))
    THEN None
    ELSE IF \E threshold \in self.auto_panic_if_drop :
               flt(current_price, drop_threshold(buy_price, threshold))
    THEN Some(calculate_panic_price(self, buy_price))
    ELSE IF \E threshold \in self.panic_if_bids_drop : \E bid \in best_bid :
               flt(bid, bid_threshold(buy_price, threshold))
    THEN Some(calculate_panic_price(self, buy_price))
    ELSE None

force_panic_sell(self, buy_price) == calculate_panic_price(self, buy_price)

(***************************************************************************)
(* LiquidationControl.  A LiquidationWarning is the name of its variant.   *)
(***************************************************************************)
LiquidationWarning_None == "None"
LiquidationWarning_Low == "Low"
LiquidationWarning_Medium == "Medium"
LiquidationWarning_High == "High"
LiquidationWarning_Critical == "Critical"

LiquidationControl_default ==
    [ enabled                     |-> TRUE,
      max_leverage                |-> 125,
      maintenance_margin_rate     |-> Num(1, 100),
      liquidation_price_threshold |-> F(20) ]

LiquidationControl_new(enabled, max_leverage, maintenance_margin_rate, liquidation_price_threshold) ==
    [ enabled                     |-> enabled,
      max_leverage                |-> max_leverage,
      maintenance_margin_rate     |-> maintenance_margin_rate,
      liquidation_price_threshold |-> liquidation_price_threshold ]

calculate_liquidation_price(self, position_size, entry_price, balance, leverage) ==
    LET is_long == fgt(position_size, F(0))
        margin_factor == fquo(fsub(F(1), self.maintenance_margin_rate), leverage)
    IN  IF is_long
        THEN fmul(entry_price, fsub(F(1), margin_factor))
        ELSE fmul(entry_price, fadd(F(1), margin_factor))

warning_level_inclusive(price_distance) ==
    IF fle(price_distance, F(5)) THEN LiquidationWarning_Critical
    ELSE IF fle(price_distance, F(10)) THEN LiquidationWarning_High
    ELSE IF fle(price_distance, F(20)) THEN LiquidationWarning_Medium
    ELSE IF fle(price_distance, F(30)) THEN LiquidationWarning_Low
    ELSE LiquidationWarning_None
\* the level of a distance to liquidation, in percent of the mark price
warning_level(price_distance) ==
    IF flt(price_distance, F(5)) THEN LiquidationWarning_Critical
    ELSE IF flt(price_distance, F(10)) THEN LiquidationWarning_High
    ELSE IF flt(price_distance, F(20)) THEN LiquidationWarning_Medium
    ELSE IF flt(price_distance, F(30)) THEN LiquidationWarning_Low
    ELSE LiquidationWarning_None

check_liquidation_risk(self, position_size, entry_price, mark_price, balance, leverage) ==
    IF \/ ~self.enabled
       \/ (position_size.k = "num" /\ position_size.n = 0)
       \/ fle(entry_price, F(0))
       \/ fle(mark_price, F(0))
    THEN LiquidationWarning_None
    ELSE LET liquidation_price ==
                 calculate_liquidation_price(self, position_size, entry_price, balance, leverage)
             is_long == fgt(position_size, F(0))
             price_distance ==
                 IF is_long
                 THEN fmul(fquo(fsub(mark_price, liquidation_price), mark_price), F(100))
                 ELSE fmul(fquo(fsub(liquidation_price, mark_price), mark_price), F(100))
         IN  warning_level(price_distance)

should_reduce_position(self, warning, current_size) ==
    IF ~self.enabled THEN None
    ELSE IF warning = LiquidationWarning_Critical THEN Some(fmul(current_size, Num(1, 2)))
    ELSE IF warning = LiquidationWarning_High THEN Some(fmul(current_size, Num(7, 10)))
    ELSE IF warning = LiquidationWarning_Medium THEN Some(fmul(current_size, Num(85, 100)))
    ELSE None

can_open_position(self, proposed_size, entry_price, balance, leverage, current_positions_size) ==
    IF ~self.enabled THEN TRUE
    ELSE LET total_size == fmul(fadd(fabs(current_positions_size), fabs(proposed_size)), entry_price)
             max_position_value == fmul(balance, leverage)
         IN  fle(total_size, max_position_value)

(***************************************************************************)
(* The calls a driver can make on the manager, and the passing of time.    *)
(***************************************************************************)
Call(op, arg, ret) == [op |-> op, arg |-> arg, ret |-> ret]

AsInit ==
    /\ \E n \in 0..MaxLevel, p \in PingLimits, ps \in BOOLEAN, r \in RestartAfter :
            mgr = AutoStopManager_new(n, p, ps, r)
    /\ now = 0
    /\ as_call = Call("new", None, None)
    /\ recorded = << >>
    /\ dc = DeltaCalculator_new
    /\ dc_time = None
    /\ dc_in_order = TRUE
    /\ dc_calc = None
    /\ ms = None
    /\ ms_now = 0
    /\ ms_n = 0
    /\ ms_call = Call("new", None, None)
    /\ ms_pre = None
    /\ ms_seen = None
    /\ hk = None
    /\ hk_now = 0
    /\ hk_n = 0
    /\ hk_call = Call("new", None, None)
    /\ hk_pending = FALSE
    /\ hk_ticks = << >>
    /\ hk_pre = None
    /\ psm = None
    /\ ps_call = None
    /\ lq = None
    /\ lq_call = None

AsTick ==
    /\ now < MaxTime
    /\ now' = now + 1
    /\ UNCHANGED <<mgr, as_call, recorded>>
    /\ UNCHANGED <<dc_vars, ms_vars, hk_vars, ps_vars, lq_vars>>

AsRecordError ==
    /\ Len(recorded) < MaxErrors
    /\ mgr' = record_error(mgr, now)
    /\ recorded' = Append(recorded, now)
    /\ as_call' = Call("record_error", None, None)
    /\ UNCHANGED now
    /\ UNCHANGED <<dc_vars, ms_vars, hk_vars, ps_vars, lq_vars>>

AsCheckPing ==
    \E ping_ms \in Pings :
        LET r == check_ping(mgr, ping_ms, now)
        IN  /\ mgr' = r.self
            /\ as_call' = Call("check_ping", Some(ping_ms), Some(r.ret))
            /\ UNCHANGED <<now, recorded>>
            /\ UNCHANGED <<dc_vars, ms_vars, hk_vars, ps_vars, lq_vars>>

AsCheckErrors ==
    LET r == check_errors(mgr, now)
    IN  /\ mgr' = r.self
        /\ as_call' = Call("check_errors", None, Some(r.ret))
        /\ UNCHANGED <<now, recorded>>
        /\ UNCHANGED <<dc_vars, ms_vars, hk_vars, ps_vars, lq_vars>>

AsStop ==
    \E reason \in StopReason :
        /\ mgr' = stop(mgr, reason, now)
        /\ as_call' = Call("stop", None, None)
        /\ UNCHANGED <<now, recorded>>
        /\ UNCHANGED <<dc_vars, ms_vars, hk_vars, ps_vars, lq_vars>>

AsShouldRestart ==
    /\ as_call' = Call("should_restart", None, Some(should_restart(mgr, now)))
    /\ UNCHANGED <<mgr, now, recorded>>
    /\ UNCHANGED <<dc_vars, ms_vars, hk_vars, ps_vars, lq_vars>>

AsRestart ==
    /\ mgr' = restart(mgr)
    /\ recorded' = << >>
    /\ as_call' = Call("restart", None, None)
    /\ UNCHANGED now
    /\ UNCHANGED <<dc_vars, ms_vars, hk_vars, ps_vars, lq_vars>>

AsNext ==
    \/ AsTick
    \/ AsRecordError
    \/ AsCheckPing
    \/ AsCheckErrors
    \/ AsStop
    \/ AsShouldRestart
    \/ AsRestart

(***************************************************************************)
(* The driver of a DeltaCalculator: ticks of any timestamp, any            *)
(* current_time, and evaluations at any price and time.                    *)
(***************************************************************************)
MaxHistory == 2         \* update() is called while the symbol history is shorter

\* instants, in minutes: 0, 1, and 1 plus 15 min, 1 h, 24 h
DcTimes == {0, 1, 16, 61, 1441}
DcPrices == {0, 2}
DcCurrentPrices == {0, 3}
DcSymbols == {BTC_USDT, ETH_USDT}

DcInit ==
    /\ dc = DeltaCalculator_new
    /\ dc_time = None
    /\ dc_in_order = TRUE
    /\ dc_calc = None
    /\ mgr = AutoStopManager_default
    /\ now = 0
    /\ as_call = Call("new", None, None)
    /\ recorded = << >>
    /\ ms = None
    /\ ms_now = 0
    /\ ms_n = 0
    /\ ms_call = Call("new", None, None)
    /\ ms_pre = None
    /\ ms_seen = None
    /\ hk = None
    /\ hk_now = 0
    /\ hk_n = 0
    /\ hk_call = Call("new", None, None)
    /\ hk_pending = FALSE
    /\ hk_ticks = << >>
    /\ hk_pre = None
    /\ psm = None
    /\ ps_call = None
    /\ lq = None
    /\ lq_call = None

DcUpdate(timestamp, symbol, price, current_time) ==
    /\ dc_calc = None
    /\ Len(dc.price_history) < MaxHistory
    /\ dc' = update(dc, [timestamp |-> timestamp, symbol |-> symbol, price |-> price],
                    current_time)
    /\ dc_time' = Some(current_time)
    /\ dc_in_order' = (/\ dc_in_order
                       /\ current_time = timestamp
                       /\ \A before \in dc_time : before <= timestamp)
    /\ UNCHANGED dc_calc
    /\ UNCHANGED <<as_vars, ms_vars, hk_vars, ps_vars, lq_vars>>

DcCalculateDeltas(current_price, current_time) ==
    /\ dc_calc = None
    /\ dc_calc' = Some([current_price |-> current_price,
                        current_time  |-> current_time,
                        deltas        |-> calculate_deltas(dc, current_price,
                                                           current_time)])
    /\ UNCHANGED <<dc, dc_time, dc_in_order>>
    /\ UNCHANGED <<as_vars, ms_vars, hk_vars, ps_vars, lq_vars>>

\* the driver passes the snapshot to the strategies' on_tick
DcHandOver ==
    /\ dc_calc # None
    /\ dc_calc' = None
    /\ UNCHANGED <<dc, dc_time, dc_in_order>>
    /\ UNCHANGED <<as_vars, ms_vars, hk_vars, ps_vars, lq_vars>>

DcNext ==
    \/ \E ts \in DcTimes, sym \in DcSymbols, p \in DcPrices, t \in DcTimes :
          DcUpdate(ts, sym, p, t)
    \/ \E cp \in DcCurrentPrices, t \in DcTimes : DcCalculateDeltas(cp, t)
    \/ DcHandOver

SpecDelta == DcInit /\ [][DcNext]_vars
SpecAutoStop == AsInit /\ [][AsNext]_vars

(***************************************************************************)
(* The driver of an MStrikeStrategy: ticks in time order, one step of time *)
(* apart, and fill reports at any moment.  A panic ends the run.           *)
(***************************************************************************)
MaxTicks == 6           \* on_tick() is called at most this many times

\* the configurations: the default one and, with mstrike_depth = 5, the
\* combinations of the order-placement switches, the dip timeouts, the
\* buy-price switches and the directions
MStrikeConfig_depth5 == [MStrikeConfig_default EXCEPT !.mstrike_depth = F(5)]
MStrikeConfigs ==
    {MStrikeConfig_default}
    \cup { [MStrikeConfig_depth5 EXCEPT !.mstrike_wait_dip = w, !.mstrike_buy_delay = d] :
              w \in BOOLEAN, d \in {0, 100} }
    \cup { [MStrikeConfig_depth5 EXCEPT !.mstrike_wait_dip = TRUE,
                                        !.mstrike_wait_dip_timeout = t] :
              t \in {2500, 5000} }
    \cup { [MStrikeConfig_depth5 EXCEPT !.mstrike_buy_relative = r, !.mstrike_buy_level = l] :
              r \in BOOLEAN, l \in {F(0), F(50), F(100), F(200)} }
    \cup { [MStrikeConfig_depth5 EXCEPT !.mstrike_wait_dip = TRUE,
                                        !.mstrike_buy_level = F(200)] }
    \cup { [MStrikeConfig_depth5 EXCEPT !.mstrike_direction = dir] :
              dir \in MStrikeDirection }

\* tick.price and tick.best_bid: a trade at the bid, a trade below a standing bid
MsQuotes ==
    { [price |-> F(90),  best_bid |-> None],
      [price |-> F(100), best_bid |-> Some(F(110))] }
MsVolumes == {F(1)}                 \* tick.volume
MsSteps == {5000}                   \* ms from one tick to the next
MsFillPrices == {F(95)}             \* on_buy_filled(price, _)
MsFillSizes == {F(50)}              \* on_buy_filled(_, size)
\* the Deltas snapshot passed to on_tick
MsDeltas ==
    { [ delta_3h |-> F(0), delta_hourly |-> F(0), delta_15min |-> F(0),
        delta_market |-> F(0), delta_btc |-> F(0), delta_btc_5m |-> F(0) ] }

MsPanicked == ms_call.ret = Some(Panic)

MsInit ==
    /\ \E config \in MStrikeConfigs : ms = MStrikeStrategy_new(config) /\ ms_pre = ms
    /\ ms_now = 0
    /\ ms_n = 0
    /\ ms_call = Call("new", None, None)
    /\ ms_seen = None
    /\ hk = None
    /\ hk_now = 0
    /\ hk_n = 0
    /\ hk_call = Call("new", None, None)
    /\ hk_pending = FALSE
    /\ hk_ticks = << >>
    /\ hk_pre = None
    /\ psm = None
    /\ ps_call = None
    /\ lq = None
    /\ lq_call = None
    /\ mgr = AutoStopManager_default
    /\ now = 0
    /\ as_call = Call("new", None, None)
    /\ recorded = << >>
    /\ dc = DeltaCalculator_new
    /\ dc_time = None
    /\ dc_in_order = TRUE
    /\ dc_calc = None

\* on_tick(), called at most limit times; the call is recorded with its tick
\* and its deltas
MsTickWithin(limit, quote, volume, step, deltas) ==
    /\ ~MsPanicked
    /\ ms_n < limit
    /\ \E tick \in {[timestamp |-> ms_now + step, price |-> quote.price,
                     volume |-> volume, best_bid |-> quote.best_bid]} :
       \E r \in {MStrikeStrategy_on_tick(ms, tick, deltas)} :
          /\ ms' = r.self
          /\ ms_call' = Call("on_tick",
                             Some([timestamp |-> tick.timestamp, price |-> tick.price,
                                   volume |-> volume, best_bid |-> quote.best_bid,
                                   deltas |-> deltas]),
                             Some(r.ret))
          /\ ms_pre' = ms
          /\ ms_now' = tick.timestamp
          /\ ms_n' = ms_n + 1
          /\ ms_seen' =
                IF is_none(r.self.state.strike_start_time) THEN None
                ELSE IF r.self.state.strike_start_time # ms.state.strike_start_time
                THEN Some([min_price |-> tick.price,
                           last_bid_ema |-> r.self.state.last_bid_ema])
                ELSE { [seen EXCEPT !.min_price = fmin(@, tick.price)] : seen \in ms_seen }
    /\ UNCHANGED <<as_vars, dc_vars, hk_vars, ps_vars, lq_vars>>

MsOnTick(quote, volume, step, deltas) == MsTickWithin(MaxTicks, quote, volume, step, deltas)

MsOnBuyFilled(price, size) ==
    /\ ~MsPanicked
    /\ ms' = MStrikeStrategy_on_buy_filled(ms, price, size)
    /\ ms_call' = Call("on_buy_filled", Some([price |-> price, size |-> size]), None)
    /\ ms_pre' = ms
    /\ UNCHANGED <<ms_now, ms_n, ms_seen>>
    /\ UNCHANGED <<as_vars, dc_vars, hk_vars, ps_vars, lq_vars>>

MsOnSellFilled ==
    /\ ~MsPanicked
    /\ ms' = MStrikeStrategy_on_sell_filled(ms)
    /\ ms_call' = Call("on_sell_filled", None, None)
    /\ ms_pre' = ms
    /\ ms_seen' = None
    /\ UNCHANGED <<ms_now, ms_n>>
    /\ UNCHANGED <<as_vars, dc_vars, hk_vars, ps_vars, lq_vars>>

MsNext ==
    \/ \E quote \in MsQuotes, volume \in MsVolumes, step \in MsSteps, deltas \in MsDeltas :
          MsOnTick(quote, volume, step, deltas)
    \/ \E price \in MsFillPrices, size \in MsFillSizes : MsOnBuyFilled(price, size)
    \/ MsOnSellFilled

SpecMStrike == MsInit /\ [][MsNext]_vars

(***************************************************************************)
(* The same driver with deltas that change from tick to tick, trades just  *)
(* below and well below a standing bid, and configurations that add the    *)
(* deltas to the depth or ask for volume.                                  *)
(***************************************************************************)
MStrikeDeltaConfigs ==
    { MStrikeConfig_depth5,
      [MStrikeConfig_depth5 EXCEPT !.mstrike_add_hourly_delta = F(5)],
      [MStrikeConfig_depth5 EXCEPT !.mstrike_add_15min_delta = F(5)],
      [MStrikeConfig_depth5 EXCEPT !.mstrike_add_market_delta = F(5)],
      [MStrikeConfig_depth5 EXCEPT !.mstrike_add_btc_delta = F(5)],
      [MStrikeConfig_depth5 EXCEPT !.mstrike_add_hourly_delta = F(-10)],
      [MStrikeConfig_depth5 EXCEPT !.mstrike_volume = F(2)],
      [MStrikeConfig_depth5 EXCEPT !.mstrike_volume = F(2), !.mstrike_wait_dip = TRUE],
      [MStrikeConfig_depth5 EXCEPT !.mstrike_add_15min_delta = F(5),
                                   !.mstrike_buy_delay = 100] }

MsNearQuotes ==
    { [price |-> F(100), best_bid |-> Some(F(110))],
      [price |-> Num(2199, 20), best_bid |-> Some(F(110))] }

MsDeltaKinds ==
    MsDeltas
    \cup { [ delta_3h |-> F(7), delta_hourly |-> F(1), delta_15min |-> F(2),
             delta_market |-> F(3), delta_btc |-> F(4), delta_btc_5m |-> F(6) ] }

MsDeltasInit ==
    /\ \E config \in MStrikeDeltaConfigs : ms = MStrikeStrategy_new(config) /\ ms_pre = ms
    /\ ms_now = 0
    /\ ms_n = 0
    /\ ms_call = Call("new", None, None)
    /\ ms_seen = None
    /\ hk = None
    /\ hk_now = 0
    /\ hk_n = 0
    /\ hk_call = Call("new", None, None)
    /\ hk_pending = FALSE
    /\ hk_ticks = << >>
    /\ hk_pre = None
    /\ psm = None
    /\ ps_call = None
    /\ lq = None
    /\ lq_call = None
    /\ mgr = AutoStopManager_default
    /\ now = 0
    /\ as_call = Call("new", None, None)
    /\ recorded = << >>
    /\ dc = DeltaCalculator_new
    /\ dc_time = None
    /\ dc_in_order = TRUE
    /\ dc_calc = None

MsDeltasNext ==
    \/ \E quote \in MsNearQuotes, volume \in MsVolumes, step \in MsSteps,
          deltas \in MsDeltaKinds :
          MsOnTick(quote, volume, step, deltas)
    \/ \E price \in MsFillPrices, size \in MsFillSizes : MsOnBuyFilled(price, size)
    \/ MsOnSellFilled

SpecMStrikeDeltas == MsDeltasInit /\ [][MsDeltasNext]_vars

(***************************************************************************)
(* The same driver on a longer run of ticks, with sell fills only.         *)
(***************************************************************************)
MaxLongTicks == 11      \* on_tick() is called at most this many times

MStrikeLongConfigs == {MStrikeConfig_default, MStrikeConfig_depth5}

MsLongInit ==
    /\ \E config \in MStrikeLongConfigs : ms = MStrikeStrategy_new(config) /\ ms_pre = ms
    /\ ms_now = 0
    /\ ms_n = 0
    /\ ms_call = Call("new", None, None)
    /\ ms_seen = None
    /\ hk = None
    /\ hk_now = 0
    /\ hk_n = 0
    /\ hk_call = Call("new", None, None)
    /\ hk_pending = FALSE
    /\ hk_ticks = << >>
    /\ hk_pre = None
    /\ psm = None
    /\ ps_call = None
    /\ lq = None
    /\ lq_call = None
    /\ mgr = AutoStopManager_default
    /\ now = 0
    /\ as_call = Call("new", None, None)
    /\ recorded = << >>
    /\ dc = DeltaCalculator_new
    /\ dc_time = None
    /\ dc_in_order = TRUE
    /\ dc_calc = None

MsOnTickLong(quote, volume, step, deltas) == MsTickWithin(MaxLongTicks, quote, volume, step, deltas)

MsLongNext ==
    \/ \E quote \in MsQuotes, volume \in MsVolumes, step \in MsSteps, deltas \in MsDeltas :
          MsOnTickLong(quote, volume, step, deltas)
    \/ MsOnSellFilled

SpecMStrikeLong == MsLongInit /\ [][MsLongNext]_vars

(***************************************************************************)
(* The driver of a HookStrategy: ticks in time order, one step of time     *)
(* apart, and fill reports at any moment.  A panic ends the run.           *)
(***************************************************************************)
MaxHookTicks == 5       \* on_tick() is called at most this many times
MaxRepeatOrders == 1    \* on_sell_filled() is called while repeat_orders is shorter

\* the configurations: the default one with every corridor mode (5: the
\* fallback), and with one other field changed
HookConfigs ==
    { [HookConfig_default EXCEPT !.hook_interpolate = mode] : mode \in 0..5 }
    \cup { [HookConfig_default EXCEPT !.hook_sell_fixed = TRUE],
           [HookConfig_default EXCEPT !.hook_repeat_after_sell = TRUE],
           [HookConfig_default EXCEPT !.min_reduced_size = F(1)],
           [HookConfig_default EXCEPT !.hook_detect_depth_max = F(4)],
           [HookConfig_default EXCEPT !.hook_detect_depth_max = F(5)],
           [HookConfig_default EXCEPT !.hook_anti_pump = TRUE,
                                      !.hook_drop_min = F(1),
                                      !.hook_drop_max = F(2)],
           [HookConfig_default EXCEPT !.buy_order_reduce = 0] }

HkPrices == {F(95), F(100)}         \* tick.price
HkVolumes == {F(1)}                 \* tick.volume
HkSteps == {1000}                   \* ms from one tick to the next
HkFillPrices == {F(96)}             \* on_buy_filled(price, _)
HkFillSizes == {F(50)}              \* on_buy_filled(_, size)

HkPanicked == hk_call.ret = Some(Panic)

HkInit ==
    /\ \E config \in HookConfigs :
          /\ hk = HookStrategy_new(config)
          /\ hk_pre = [self |-> hk, pending |-> FALSE]
    /\ hk_now = 0
    /\ hk_n = 0
    /\ hk_call = Call("new", None, None)
    /\ hk_pending = FALSE
    /\ hk_ticks = << >>
    /\ ms = None
    /\ ms_now = 0
    /\ ms_n = 0
    /\ ms_call = Call("new", None, None)
    /\ ms_pre = None
    /\ ms_seen = None
    /\ mgr = AutoStopManager_default
    /\ now = 0
    /\ as_call = Call("new", None, None)
    /\ recorded = << >>
    /\ dc = DeltaCalculator_new
    /\ dc_time = None
    /\ dc_in_order = TRUE
    /\ dc_calc = None
    /\ psm = None
    /\ ps_call = None
    /\ lq = None
    /\ lq_call = None

HkOnTick(price, volume, step, deltas) ==
    /\ ~HkPanicked
    /\ hk_n < MaxHookTicks
    /\ \E tick \in {[timestamp |-> hk_now + step, price |-> price, volume |-> volume]} :
          \E r \in {HookStrategy_on_tick(hk, tick, deltas)} :
             /\ hk' = r.self
             /\ hk_call' = Call("on_tick", Some(tick), Some(r.ret))
             /\ hk_pending' = (hk_pending \/ r.ret.sig = "PlaceBuy")
             /\ hk_now' = tick.timestamp
             /\ hk_ticks' = Append(hk_ticks, tick)
    /\ hk_n' = hk_n + 1
    /\ hk_pre' = [self |-> hk, pending |-> hk_pending]
    /\ UNCHANGED <<as_vars, dc_vars, ms_vars, ps_vars, lq_vars>>

HkOnBuyFilled(price, size) ==
    /\ ~HkPanicked
    /\ hk' = HookStrategy_on_buy_filled(hk, price, size)
    /\ hk_call' = Call("on_buy_filled", Some([price |-> price, size |-> size]), None)
    /\ hk_pending' = FALSE
    /\ hk_pre' = [self |-> hk, pending |-> hk_pending]
    /\ UNCHANGED <<hk_now, hk_n, hk_ticks>>
    /\ UNCHANGED <<as_vars, dc_vars, ms_vars, ps_vars, lq_vars>>

HkOnSellFilled ==
    /\ ~HkPanicked
    /\ Len(hk.state.repeat_orders) < MaxRepeatOrders
    /\ LET r == HookStrategy_on_sell_filled(hk, hk_now)
       IN  /\ hk' = r.self
           /\ hk_call' = Call("on_sell_filled", None, r.ret)
    /\ hk_pending' = FALSE
    /\ hk_pre' = [self |-> hk, pending |-> hk_pending]
    /\ UNCHANGED <<hk_now, hk_n, hk_ticks>>
    /\ UNCHANGED <<as_vars, dc_vars, ms_vars, ps_vars, lq_vars>>

HkNext ==
    \/ \E price \in HkPrices, volume \in HkVolumes, step \in HkSteps, deltas \in MsDeltas :
          HkOnTick(price, volume, step, deltas)
    \/ \E price \in HkFillPrices, size \in HkFillSizes : HkOnBuyFilled(price, size)
    \/ HkOnSellFilled

SpecHook == HkInit /\ [][HkNext]_vars

(***************************************************************************)
(* The same driver with ticks at the same instant, one step apart and more *)
(* than a time frame apart, and buy fills only: how the windows are kept.  *)
(***************************************************************************)
MaxWindowTicks == 4     \* on_tick() is called at most this many times

HookWindowConfigs ==
    {HookConfig_default, [HookConfig_default EXCEPT !.hook_time_frame = 1000]}
HkWindowSteps == {0, 1000, 3000}    \* ms from one tick to the next

HkWindowInit ==
    /\ \E config \in HookWindowConfigs :
          /\ hk = HookStrategy_new(config)
          /\ hk_pre = [self |-> hk, pending |-> FALSE]
    /\ hk_now = 0
    /\ hk_n = 0
    /\ hk_call = Call("new", None, None)
    /\ hk_pending = FALSE
    /\ hk_ticks = << >>
    /\ ms = None
    /\ ms_now = 0
    /\ ms_n = 0
    /\ ms_call = Call("new", None, None)
    /\ ms_pre = None
    /\ ms_seen = None
    /\ mgr = AutoStopManager_default
    /\ now = 0
    /\ as_call = Call("new", None, None)
    /\ recorded = << >>
    /\ dc = DeltaCalculator_new
    /\ dc_time = None
    /\ dc_in_order = TRUE
    /\ dc_calc = None
    /\ psm = None
    /\ ps_call = None
    /\ lq = None
    /\ lq_call = None

HkOnTickWindow(price, volume, step, deltas) ==
    /\ hk_n < MaxWindowTicks
    /\ HkOnTick(price, volume, step, deltas)

HkWindowNext ==
    \/ \E price \in HkPrices, volume \in HkVolumes, step \in HkWindowSteps, deltas \in MsDeltas :
          HkOnTickWindow(price, volume, step, deltas)
    \/ \E price \in HkFillPrices, size \in HkFillSizes : HkOnBuyFilled(price, size)

SpecHookWindow == HkWindowInit /\ [][HkWindowNext]_vars

(***************************************************************************)
(* Either strategy under its own driver: a run starts with an              *)
(* MStrikeStrategy or with a HookStrategy of any of the configurations     *)
(* above and makes the public calls of that strategy.                      *)
(***************************************************************************)
\* the strategy a run does not use is None, and its last call is "idle"
StKinds == {"MStrikeStrategy", "HookStrategy"}
StMStrike == ms_call.op # "idle"
StHook == hk_call.op # "idle"

StInit ==
    /\ \E kind \in StKinds, mstrike \in MStrikeConfigs, hook \in HookConfigs :
          IF kind = "MStrikeStrategy"
          THEN /\ ms = MStrikeStrategy_new(mstrike)
               /\ ms_pre = ms
               /\ ms_call = Call("new", None, None)
               /\ hk = None
               /\ hk_pre = None
               /\ hk_call = Call("idle", None, None)
          ELSE /\ ms = None
               /\ ms_pre = None
               /\ ms_call = Call("idle", None, None)
               /\ hk = HookStrategy_new(hook)
               /\ hk_pre = [self |-> hk, pending |-> FALSE]
               /\ hk_call = Call("new", None, None)
    /\ ms_now = 0
    /\ ms_n = 0
    /\ ms_seen = None
    /\ hk_now = 0
    /\ hk_n = 0
    /\ hk_pending = FALSE
    /\ hk_ticks = << >>
    /\ psm = None
    /\ ps_call = None
    /\ lq = None
    /\ lq_call = None
    /\ mgr = AutoStopManager_default
    /\ now = 0
    /\ as_call = Call("new", None, None)
    /\ recorded = << >>
    /\ dc = DeltaCalculator_new
    /\ dc_time = None
    /\ dc_in_order = TRUE
    /\ dc_calc = None

StMsOnTick(quote, volume, step, deltas) == StMStrike /\ MsOnTick(quote, volume, step, deltas)
StMsOnBuyFilled(price, size) == StMStrike /\ MsOnBuyFilled(price, size)
StMsOnSellFilled == StMStrike /\ MsOnSellFilled
StHkOnTick(price, volume, step, deltas) == StHook /\ HkOnTick(price, volume, step, deltas)
StHkOnBuyFilled(price, size) == StHook /\ HkOnBuyFilled(price, size)
StHkOnSellFilled == StHook /\ HkOnSellFilled

StNext ==
    \/ \E quote \in MsQuotes, volume \in MsVolumes, step \in MsSteps, deltas \in MsDeltas :
          StMsOnTick(quote, volume, step, deltas)
    \/ \E price \in MsFillPrices, size \in MsFillSizes : StMsOnBuyFilled(price, size)
    \/ StMsOnSellFilled
    \/ \E price \in HkPrices, volume \in HkVolumes, step \in HkSteps, deltas \in MsDeltas :
          StHkOnTick(price, volume, step, deltas)
    \/ \E price \in HkFillPrices, size \in HkFillSizes : StHkOnBuyFilled(price, size)
    \/ StHkOnSellFilled

SpecStrategies == StInit /\ [][StNext]_vars

(***************************************************************************)
(* The driver of a PanicSellManager: any manager, and queries at any       *)
(* prices.  The manager has no mutable state.                              *)
(***************************************************************************)
PsThresholds == {None, Some(F(5)), Some(F(-5))}
PsBidThresholds == {None, Some(F(3)), Some(F(-3))}
PanicSellManagers ==
    {PanicSellManager_default}
    \cup { PanicSellManager_new(enabled, Num(102, 100), Num(1, 100), auto_panic_if_drop, panic_if_bids_drop) :
             enabled \in BOOLEAN, auto_panic_if_drop \in PsThresholds,
             panic_if_bids_drop \in PsBidThresholds }
PsBuyPrices == {F(-100), F(0), F(100)}
PsCurrentPrices == {F(94), F(95), F(100)}
PsBestBids == {None, Some(F(96)), Some(F(97)), Some(F(102)), Some(F(103))}

PsInit ==
    /\ psm \in PanicSellManagers
    /\ ps_call = Call("new", None, None)
    /\ lq = None
    /\ lq_call = None
    /\ mgr = AutoStopManager_default
    /\ now = 0
    /\ as_call = Call("new", None, None)
    /\ recorded = << >>
    /\ dc = DeltaCalculator_new
    /\ dc_time = None
    /\ dc_in_order = TRUE
    /\ dc_calc = None
    /\ ms = None
    /\ ms_now = 0
    /\ ms_n = 0
    /\ ms_call = Call("new", None, None)
    /\ ms_pre = None
    /\ ms_seen = None
    /\ hk = None
    /\ hk_now = 0
    /\ hk_n = 0
    /\ hk_call = Call("new", None, None)
    /\ hk_pending = FALSE
    /\ hk_ticks = << >>
    /\ hk_pre = None

PsShouldPanicSell(buy_price, current_price, best_bid) ==
    /\ ps_call' = Call("should_panic_sell",
                       Some([buy_price |-> buy_price, current_price |-> current_price,
                             best_bid |-> best_bid]),
                       Some(should_panic_sell(psm, buy_price, current_price, best_bid)))
    /\ UNCHANGED <<psm, lq_vars, as_vars, dc_vars, ms_vars, hk_vars>>

PsCalculatePanicPrice(buy_price) ==
    /\ ps_call' = Call("calculate_panic_price", Some([buy_price |-> buy_price]),
                       Some(calculate_panic_price(psm, buy_price)))
    /\ UNCHANGED <<psm, lq_vars, as_vars, dc_vars, ms_vars, hk_vars>>

PsForcePanicSell(buy_price) ==
    /\ ps_call' = Call("force_panic_sell", Some([buy_price |-> buy_price]),
                       Some(force_panic_sell(psm, buy_price)))
    /\ UNCHANGED <<psm, lq_vars, as_vars, dc_vars, ms_vars, hk_vars>>

PsNext ==
    \/ \E buy_price \in PsBuyPrices, current_price \in PsCurrentPrices, best_bid \in PsBestBids :
          PsShouldPanicSell(buy_price, current_price, best_bid)
    \/ \E buy_price \in PsBuyPrices : PsCalculatePanicPrice(buy_price)
    \/ \E buy_price \in PsBuyPrices : PsForcePanicSell(buy_price)

SpecPanicSell == PsInit /\ [][PsNext]_vars

(***************************************************************************)
(* The driver of a LiquidationControl: any control, and queries for any    *)
(* position.  The control has no mutable state.                            *)
(***************************************************************************)
LiquidationControls ==
    {LiquidationControl_default}
    \cup { LiquidationControl_new(enabled, 125, maintenance_margin_rate, F(20)) :
             enabled \in BOOLEAN, maintenance_margin_rate \in {F(0), Num(1, 100)} }
LqPositionSizes == {F(-1), F(0), F(1)}
LqEntryPrices == {F(-100), F(0), F(70), F(80), F(100), F(140), F(160), F(180), F(190), F(300)}
LqMarkPrices == {F(-100), F(0), F(95), F(100)}
LqBalances == {F(1000)}
LqLeverages == {F(0), F(2), F(10)}
LqWarnings ==
    {LiquidationWarning_None, LiquidationWarning_Low, LiquidationWarning_Medium,
     LiquidationWarning_High, LiquidationWarning_Critical}

LqInit ==
    /\ lq \in LiquidationControls
    /\ lq_call = Call("new", None, None)
    /\ psm = None
    /\ ps_call = None
    /\ mgr = AutoStopManager_default
    /\ now = 0
    /\ as_call = Call("new", None, None)
    /\ recorded = << >>
    /\ dc = DeltaCalculator_new
    /\ dc_time = None
    /\ dc_in_order = TRUE
    /\ dc_calc = None
    /\ ms = None
    /\ ms_now = 0
    /\ ms_n = 0
    /\ ms_call = Call("new", None, None)
    /\ ms_pre = None
    /\ ms_seen = None
    /\ hk = None
    /\ hk_now = 0
    /\ hk_n = 0
    /\ hk_call = Call("new", None, None)
    /\ hk_pending = FALSE
    /\ hk_ticks = << >>
    /\ hk_pre = None

LqCheckLiquidationRisk(position_size, entry_price, mark_price, balance, leverage) ==
    /\ lq_call' = Call("check_liquidation_risk",
                       Some([position_size |-> position_size, entry_price |-> entry_price,
                             mark_price |-> mark_price, balance |-> balance,
                             leverage |-> leverage]),
                       Some(check_liquidation_risk(lq, position_size, entry_price, mark_price,
                                                   balance, leverage)))
    /\ UNCHANGED <<lq, ps_vars, as_vars, dc_vars, ms_vars, hk_vars>>

LqShouldReducePosition(warning, current_size) ==
    /\ lq_call' = Call("should_reduce_position",
                       Some([warning |-> warning, current_size |-> current_size]),
                       Some(should_reduce_position(lq, warning, current_size)))
    /\ UNCHANGED <<lq, ps_vars, as_vars, dc_vars, ms_vars, hk_vars>>

LqCanOpenPosition(proposed_size, entry_price, balance, leverage, current_positions_size) ==
    /\ lq_call' = Call("can_open_position",
                       Some([proposed_size |-> proposed_size, entry_price |-> entry_price,
                             balance |-> balance, leverage |-> leverage,
                             current_positions_size |-> current_positions_size]),
                       Some(can_open_position(lq, proposed_size, entry_price, balance, leverage,
                                              current_positions_size)))
    /\ UNCHANGED <<lq, ps_vars, as_vars, dc_vars, ms_vars, hk_vars>>

LqNext ==
    \/ \E position_size \in LqPositionSizes, entry_price \in LqEntryPrices,
          mark_price \in LqMarkPrices, balance \in LqBalances, leverage \in LqLeverages :
          LqCheckLiquidationRisk(position_size, entry_price, mark_price, balance, leverage)
    \/ \E warning \in LqWarnings, current_size \in LqPositionSizes :
          LqShouldReducePosition(warning, current_size)
    \/ \E proposed_size \in LqPositionSizes, entry_price \in {F(100)}, balance \in LqBalances,
          leverage \in LqLeverages, current_positions_size \in LqPositionSizes :
          LqCanOpenPosition(proposed_size, entry_price, balance, leverage, current_positions_size)

SpecLiquidation == LqInit /\ [][LqNext]_vars

(***************************************************************************)
(* AutoStopManager: the claims                                             *)
(***************************************************************************)
Fresh(self) ==
    AutoStopManager_new(self.max_error_level, self.max_ping_ms,
                        self.panic_sell_on_stop, self.restart_after_minutes)

\* the last n record_error() calls lie less than one hour apart
LastWithinHour(rec, n) ==
    /\ n >= 1
    /\ Len(rec) >= n
    /\ (rec[Len(rec)] - rec[Len(rec) - n + 1]) * MinutesPerTick < MinutesPerHour

\* C1: on a manager with max_error_level = N >= 1 that is not stopped,
\* check_errors() returns false and leaves it running while fewer than N errors
\* have been recorded; once N record_error() calls lie within one hour (less
\* than an hour apart) it returns true, the manager is stopped and the reason
\* is ErrorLevelExceeded.
C1_ErrorThreshold ==
    [][ (AsCheckErrors /\ mgr.max_error_level >= 1 /\ ~is_stopped(mgr)) =>
          /\ Len(recorded) < mgr.max_error_level =>
                (as_call'.ret = Some(FALSE) /\ ~is_stopped(mgr') /\ mgr' = mgr)
          /\ LastWithinHour(recorded, mgr.max_error_level) =>
                /\ as_call'.ret = Some(TRUE)
                /\ is_stopped(mgr')
                /\ stop_reason(mgr') = "ErrorLevelExceeded" ]_vars

C1_Witness ==
    /\ as_call.op = "check_errors"
    /\ as_call.ret = Some(TRUE)
    /\ mgr.max_error_level = 2
    /\ Len(recorded) = 2
    /\ stop_reason(mgr) = "ErrorLevelExceeded"
    /\ mgr.stopped_at = Some(now)

\* C2 as claimed: from every reachable state, check_ping(ms) with
\* ms > max_ping_ms returns true and leaves the manager stopped with
\* stop_reason = PingTooHigh; with ms <= max_ping_ms it returns false and
\* changes no field.
C2_PingAsClaimed ==
    [][ AsCheckPing =>
          IF unwrap(as_call'.arg) > mgr.max_ping_ms
          THEN /\ as_call'.ret = Some(TRUE)
               /\ is_stopped(mgr')
               /\ stop_reason(mgr') = "PingTooHigh"
          ELSE as_call'.ret = Some(FALSE) /\ mgr' = mgr ]_vars

\* C2 amended: check_ping(ms) with ms > max_ping_ms returns true and leaves the
\* manager stopped; the reason is PingTooHigh (and stopped_at the time of the
\* call) when the manager was not stopped before, and an already stopped
\* manager keeps its stopped_at and stop_reason.  With ms <= max_ping_ms it
\* returns false and changes no field.
C2_Ping ==
    [][ AsCheckPing =>
          IF unwrap(as_call'.arg) > mgr.max_ping_ms
          THEN /\ as_call'.ret = Some(TRUE)
               /\ is_stopped(mgr')
               /\ IF is_stopped(mgr)
                  THEN mgr' = mgr
                  ELSE /\ stop_reason(mgr') = "PingTooHigh"
                       /\ mgr'.stopped_at = Some(now)
          ELSE as_call'.ret = Some(FALSE) /\ mgr' = mgr ]_vars

C2_Witness ==
    /\ as_call.op = "check_ping"
    /\ unwrap(as_call.arg) > mgr.max_ping_ms
    /\ as_call.ret = Some(TRUE)
    /\ stop_reason(mgr) = "Manual"
    /\ unwrap(mgr.stopped_at) < now

\* C3: in every reachable state is_stopped() is true exactly when
\* stop_reason is not StopReason::None.
C3_StoppedIffReason ==
    is_stopped(mgr) <=> (stop_reason(mgr) # "None")

\* C4: immediately after record_error(), current_error_level is the number of
\* entries of error_history, and every entry is less than one hour older than
\* the time of that call.
C4_RecordError ==
    as_call.op = "record_error" =>
        /\ mgr.current_error_level = Len(mgr.error_history)
        /\ \A i \in 1..Len(mgr.error_history) :
              (recorded[Len(recorded)] - mgr.error_history[i]) * MinutesPerTick
                  < MinutesPerHour

\* an error exactly one hour old has just been dropped by record_error()
C4_Witness ==
    /\ as_call.op = "record_error"
    /\ Len(recorded) = 3
    /\ (recorded[3] - recorded[1]) * MinutesPerTick = MinutesPerHour
    /\ mgr.current_error_level = 2

\* C5: stop(r2) on a manager that is already stopped changes nothing.
C5_StopIdempotent ==
    [][ (AsStop /\ is_stopped(mgr)) => mgr' = mgr ]_vars

\* the manager was stopped by check_ping earlier, and stop() was the last call
C5_Witness ==
    /\ as_call.op = "stop"
    /\ stop_reason(mgr) = "PingTooHigh"
    /\ unwrap(mgr.stopped_at) < now

\* C6: restart() yields the freshly constructed manager of the same
\* configuration: not stopped, no reason, level 0, empty history, thresholds
\* and policy fields as before.
C6_Restart ==
    [][ AsRestart => mgr' = Fresh(mgr) ]_vars

C6_Witness ==
    /\ as_call.op = "restart"
    /\ mgr = Fresh(mgr)
    /\ mgr.panic_sell_on_stop
    /\ mgr.restart_after_minutes # None
    /\ now > 0

\* C7: should_restart() is true exactly when the manager is stopped,
\* restart_after_minutes is Some(m) and at least m minutes have passed since
\* stopped_at; it changes no field; with restart_after_minutes = None it is
\* false.
C7_ShouldRestart ==
    [][ AsShouldRestart =>
          /\ mgr' = mgr
          /\ as_call'.ret = Some(
                /\ is_stopped(mgr)
                /\ mgr.restart_after_minutes # None
                /\ \E m \in mgr.restart_after_minutes, at \in mgr.stopped_at :
                      (now - at) * MinutesPerTick >= m)
          /\ (mgr.restart_after_minutes = None => as_call'.ret = Some(FALSE)) ]_vars

C7_Witness ==
    /\ as_call.op = "should_restart"
    /\ as_call.ret = Some(TRUE)
    /\ mgr.restart_after_minutes = Some(45)
    /\ now - unwrap(mgr.stopped_at) = 2

\* C33: errors older than one hour do not count toward the level that
\* check_errors() compares with max_error_level: a check_errors() that returns
\* true and stops the manager, with max_error_level >= 1, finds at least one
\* error recorded no more than one hour before it.
C33_ErrorDecay ==
    ( /\ as_call.op = "check_errors"
      /\ as_call.ret = Some(TRUE)
      /\ mgr.max_error_level >= 1
      /\ stop_reason(mgr) = "ErrorLevelExceeded"
      /\ mgr.stopped_at = Some(now) )
    => \E i \in 1..Len(recorded) :
          signed_duration_since(now, recorded[i]) <= Duration_hours(1)

\* C34: record_error() leaves stopped_at and stop_reason as they were, also
\* when it raises current_error_level to max_error_level or above; the step
\* that sets the reason ErrorLevelExceeded is a check_errors() (or an explicit
\* stop()), and check_errors() on a running manager at or above the level does
\* set it.
C34_RecordErrorKeepsStopState ==
    [][ /\ AsRecordError =>
              /\ mgr'.stopped_at = mgr.stopped_at
              /\ mgr'.stop_reason = mgr.stop_reason
        /\ (stop_reason(mgr) # "ErrorLevelExceeded" /\ stop_reason(mgr') = "ErrorLevelExceeded")
              => (AsCheckErrors \/ AsStop)
        /\ (AsCheckErrors /\ ~is_stopped(mgr) /\ mgr.current_error_level >= mgr.max_error_level)
              => (is_stopped(mgr') /\ stop_reason(mgr') = "ErrorLevelExceeded") ]_vars

\* a record_error() has raised the level of a running manager to its
\* max_error_level >= 1, and the manager is still running
C34_Witness ==
    /\ as_call.op = "record_error"
    /\ mgr.max_error_level >= 1
    /\ mgr.current_error_level >= mgr.max_error_level
    /\ ~is_stopped(mgr)
    /\ stop_reason(mgr) = "None"

(***************************************************************************)
(* MStrikeStrategy: the claims                                             *)
(***************************************************************************)
MsTick == unwrap(ms_call.arg)
\* the last call was on_tick() and it returned a signal of this kind
MsReturned(sig) == ms_call.op = "on_tick" /\ \E r \in ms_call.ret : r.sig = sig
\* the states of section 4.2, read off the fields
MsPositioned(self) == is_some(self.state.buy_price)
MsWaitingDip(self) == ~MsPositioned(self) /\ self.state.waiting_for_dip_reversal
MsTracking(self) ==
    /\ ~MsPositioned(self)
    /\ ~self.state.waiting_for_dip_reversal
    /\ is_some(self.state.min_price_during_strike)
MsIdleStrike(self) ==
    /\ self.state.min_price_during_strike = None
    /\ self.state.strike_start_time = None
    /\ self.state.price_before_strike = None
    /\ self.state.strike_volume = F(0)
    /\ ~self.state.waiting_for_dip_reversal
    /\ self.state.dip_wait_start = None
    /\ self.state.last_price_before_dip = None

\* the price of the last PlaceBuy is the stored buy_price and lies between
\* min_price_during_strike and price_before_strike
MsBuyPriceInStrike ==
    \A r \in ms_call.ret :
        /\ ms.state.buy_price = Some(r.price)
        /\ \E min_price \in ms.state.min_price_during_strike,
              price_before \in ms.state.price_before_strike :
              fle(min_price, r.price) /\ fle(r.price, price_before)

\* C11 as claimed: whenever on_tick returns PlaceBuy with mstrike_buy_relative
\* = true and mstrike_buy_level >= 0, the emitted price (and the stored
\* buy_price) satisfies min_price_during_strike <= price <= price_before_strike.
C11_BuyPriceAsClaimed ==
    (/\ MsReturned("PlaceBuy")
     /\ ms.config.mstrike_buy_relative
     /\ fge(ms.config.mstrike_buy_level, F(0))) => MsBuyPriceInStrike

\* C11 amended: whenever on_tick returns PlaceBuy with mstrike_buy_relative =
\* true and 0 <= mstrike_buy_level <= 100, the emitted price (and the stored
\* buy_price) satisfies min_price_during_strike <= price <= price_before_strike.
C11_BuyPrice ==
    (/\ MsReturned("PlaceBuy")
     /\ ms.config.mstrike_buy_relative
     /\ fge(ms.config.mstrike_buy_level, F(0))
     /\ fle(ms.config.mstrike_buy_level, F(100))) => MsBuyPriceInStrike

\* a buy at half the depth of a strike from 110 down to 100: strictly inside
C11_Witness ==
    /\ MsReturned("PlaceBuy")
    /\ ms.config.mstrike_buy_relative
    /\ ms.config.mstrike_buy_level = F(50)
    /\ ms.state.min_price_during_strike = Some(F(100))
    /\ ms.state.price_before_strike = Some(F(110))
    /\ \E r \in ms_call.ret : flt(F(100), r.price) /\ flt(r.price, F(110))

\* the fire condition on the strike as the tick left it
MsFireCondition(self) ==
    \E min_price \in self.state.min_price_during_strike,
       price_before \in self.state.price_before_strike :
        /\ fge(fmul(fquo(fsub(price_before, min_price), price_before), F(100)),
               fmax(self.config.mstrike_depth, Num(1, 10)))
        /\ fge(self.state.strike_volume, self.config.mstrike_volume)

\* C12: when the fire condition holds on a tick of a tracked strike and
\* mstrike_wait_dip is true, the strategy enters WaitingDip (flag set,
\* dip_wait_start = tick time, last_price_before_dip = tick price) whatever
\* mstrike_buy_delay is; the buy_delay branch (DetectStrike, the buy left to
\* the driver) is taken only when mstrike_wait_dip is false, and the immediate
\* PlaceBuy branch only when both are off.
C12_WaitDipFirst ==
    (ms_call.op = "on_tick" /\ MsTracking(ms_pre) /\ MsFireCondition(ms)) =>
        /\ ms.config.mstrike_wait_dip =>
              /\ ms.state.waiting_for_dip_reversal
              /\ ms.state.dip_wait_start = Some(MsTick.timestamp)
              /\ ms.state.last_price_before_dip = Some(MsTick.price)
        /\ (MsReturned("DetectStrike") /\ ~ms.state.waiting_for_dip_reversal) =>
              ~ms.config.mstrike_wait_dip
        /\ MsReturned("PlaceBuy") =>
              ~ms.config.mstrike_wait_dip /\ ms.config.mstrike_buy_delay = 0

\* C13: in WaitingDip, a tick no more than mstrike_wait_dip_timeout ms after
\* dip_wait_start with price > last_price_before_dip leaves WaitingDip and
\* yields PlaceBuy; a tick more than mstrike_wait_dip_timeout ms after
\* dip_wait_start resets the tracking state to Idle and yields NoAction,
\* whatever its price; any other tick yields NoAction and the strategy keeps
\* waiting, its strike as it was.  So the strategy is never in WaitingDip
\* after a tick that came after the timeout.
C13_DipReversal ==
    (ms_call.op = "on_tick" /\ MsWaitingDip(ms_pre)) =>
        LET elapsed == MsTick.timestamp - unwrap(ms_pre.state.dip_wait_start)
            last_price == unwrap(ms_pre.state.last_price_before_dip)
        IN  IF elapsed > ms_pre.config.mstrike_wait_dip_timeout
            THEN /\ ms_call.ret = Some(MStrikeSignal_NoAction)
                 /\ MsIdleStrike(ms)
                 /\ ms.state.buy_price = None
            ELSE IF fgt(MsTick.price, last_price)
            THEN /\ MsReturned("PlaceBuy")
                 /\ ~ms.state.waiting_for_dip_reversal
                 /\ MsPositioned(ms)
            ELSE /\ ms_call.ret = Some(MStrikeSignal_NoAction)
                 /\ MsWaitingDip(ms)
                 /\ ms.state.dip_wait_start = ms_pre.state.dip_wait_start
                 /\ ms.state.last_price_before_dip = ms_pre.state.last_price_before_dip
                 /\ ms.state.min_price_during_strike = ms_pre.state.min_price_during_strike
                 /\ ms.state.price_before_strike = ms_pre.state.price_before_strike

\* the dip began at a trade at 90; the next tick, a trade at 100, comes 5000 ms
\* later with a timeout of 2500 ms: no buy, back to Idle
C13_Witness ==
    /\ ms_call.op = "on_tick"
    /\ MsWaitingDip(ms_pre)
    /\ ms_pre.config.mstrike_wait_dip_timeout = 2500
    /\ ms_pre.state.last_price_before_dip = Some(F(90))
    /\ MsTick.price = F(100)
    /\ MsTick.timestamp - unwrap(ms_pre.state.dip_wait_start) = 5000
    /\ ms_call.ret = Some(MStrikeSignal_NoAction)
    /\ MsIdleStrike(ms)

\* C14: in every reachable state in which strike_start_time is set (Tracking,
\* WaitingDip or Positioned), min_price_during_strike is the lowest trade
\* price of the ticks delivered to on_tick since strike_start_time
\* (inclusive), and price_before_strike is the LastBidEMA of the tick that
\* started the strike.
C14_StrikeMinimum ==
    is_some(ms.state.strike_start_time) =>
        \E seen \in ms_seen :
            /\ ms.state.min_price_during_strike = Some(seen.min_price)
            /\ ms.state.price_before_strike = seen.last_bid_ema

\* C15: with mstrike_direction = OnlyShort, on_tick emits neither the PlaceBuy
\* of a downward strike nor the PlaceSell that follows it.
C15_OnlyShortSilent ==
    ms.config.mstrike_direction = "OnlyShort" =>
        ~MsReturned("PlaceBuy") /\ ~MsReturned("PlaceSell")

\* C16: while a position is held (buy_price set), on_tick returns
\* PlaceSell{price = sell_price, size = position_size} on a tick whose price is
\* >= sell_price = min_price * (1 + (depth * mstrike_sell_level / 100) / 100),
\* and NoAction on a tick whose price is below it.
C16_SellRule ==
    (ms_call.op = "on_tick" /\ MsPositioned(ms_pre)) =>
        \E min_price \in ms_pre.state.min_price_during_strike,
           price_before \in ms_pre.state.price_before_strike :
            LET depth == fmul(fquo(fsub(price_before, min_price), price_before), F(100))
                gain == fquo(fquo(fmul(depth, ms_pre.config.mstrike_sell_level), F(100)), F(100))
                sell_price == fmul(min_price, fadd(F(1), gain))
            IN  ms_call.ret =
                    Some(IF fge(MsTick.price, sell_price)
                         THEN [sig |-> "PlaceSell", price |-> sell_price,
                               size |-> ms_pre.state.position_size]
                         ELSE [sig |-> "NoAction"])

\* C17: on_sell_filled, from any state, leaves buy_price = None,
\* position_size = 0, active_order_id = None, min_price_during_strike,
\* strike_start_time and price_before_strike None, strike_volume = 0 and the
\* dip-wait fields cleared; bid_history and LastBidEMA are as before the call.
C17_SellFilledResets ==
    ms_call.op = "on_sell_filled" =>
        /\ ms.state.buy_price = None
        /\ ms.state.position_size = F(0)
        /\ ms.state.active_order_id = None
        /\ MsIdleStrike(ms)
        /\ ms.state.bid_history = ms_pre.state.bid_history
        /\ ms.state.last_bid_ema = ms_pre.state.last_bid_ema
        /\ ms.config = ms_pre.config

\* the sell fill came on a filled position with its strike still tracked
C17_Witness ==
    /\ ms_call.op = "on_sell_filled"
    /\ ms_pre.state.active_order_id = Some(0)
    /\ is_some(ms_pre.state.min_price_during_strike)
    /\ is_some(ms_pre.state.last_bid_ema)
    /\ Len(ms_pre.state.bid_history) >= 5
    /\ ms.state.buy_price = None

\* C27: no sequence of on_tick (with valid ticks), on_buy_filled and
\* on_sell_filled calls, in any order, reaches a panic: every call returns.
C27_NeverPanics == ms_call.ret # Some(Panic)

\* C28: with mstrike_buy_delay > 0 and mstrike_wait_dip off, a tick that
\* returned DetectStrike is not followed by a tick that returns DetectStrike
\* again for the same strike.
C28_DetectStrikeOnce ==
    [][ ( /\ MsReturned("DetectStrike")
          /\ ms.config.mstrike_buy_delay > 0
          /\ ~ms.config.mstrike_wait_dip
          /\ ms_call'.op = "on_tick"
          /\ ms'.state.strike_start_time = ms.state.strike_start_time )
        => ~MsReturned("DetectStrike")' ]_vars

\* effective_depth from the deltas passed with the last tick
MsEffectiveDepth ==
    LET config == ms_pre.config
        deltas == MsTick.deltas
        sum == fadd(fadd(fadd(fadd(config.mstrike_depth,
                   fmul(deltas.delta_hourly, config.mstrike_add_hourly_delta)),
                   fmul(deltas.delta_15min, config.mstrike_add_15min_delta)),
                   fmul(deltas.delta_market, config.mstrike_add_market_delta)),
                   fmul(deltas.delta_btc, config.mstrike_add_btc_delta))
    IN  IF flt(sum, Num(1, 10)) THEN Num(1, 10) ELSE sum
\* the last tick set a new minimum of the strike tracked before it
MsNewMinimum == \E m \in ms_pre.state.min_price_during_strike : flt(MsTick.price, m)
MsFired ==
    \/ MsReturned("PlaceBuy")
    \/ MsReturned("DetectStrike")
    \/ (ms_call.op = "on_tick" /\ MsWaitingDip(ms))

\* C29: in Tracking, on_tick fires (PlaceBuy, DetectStrike or entry to
\* WaitingDip) if and only if ((price_before_strike - min_price) /
\* price_before_strike) * 100 >= effective_depth and strike_volume >=
\* mstrike_volume, with effective_depth = max(0.1, mstrike_depth + the sum of
\* delta * multiplier over the four channels) from the deltas of that tick, the
\* minimum lowered by that tick's price, and strike_volume the start tick's
\* volume plus the volume of every later tick that set a new minimum.
C29_FireCondition ==
    /\ (ms_call.op = "on_tick" /\ MsTracking(ms_pre)) =>
          \E min_before \in ms_pre.state.min_price_during_strike,
             price_before \in ms_pre.state.price_before_strike :
              LET min_price == IF MsNewMinimum THEN MsTick.price ELSE min_before
                  strike_volume == IF MsNewMinimum
                                   THEN fadd(ms_pre.state.strike_volume, MsTick.volume)
                                   ELSE ms_pre.state.strike_volume
              IN  /\ ms.state.min_price_during_strike = Some(min_price)
                  /\ ms.state.strike_volume = strike_volume
                  /\ ms.state.price_before_strike = Some(price_before)
                  /\ MsFired <=>
                        /\ fge(fmul(fsub(price_before, min_price), F(100)),
                               fmul(MsEffectiveDepth, price_before))
                        /\ fge(strike_volume, ms_pre.config.mstrike_volume)
    /\ (ms_call.op = "on_tick" /\ ~MsPositioned(ms_pre) /\ MsIdleStrike(ms_pre)
        /\ MsTracking(ms)) => ms.state.strike_volume = MsTick.volume

\* in Tracking, a strike deeper than mstrike_depth did not fire on a tick whose
\* deltas raise the effective depth above it, the deltas of the tick before
\* being zero
C29_Witness ==
    /\ ms_call.op = "on_tick"
    /\ MsTracking(ms_pre)
    /\ ~MsFired
    /\ ms_pre.state.delta_15min = F(0)
    /\ MsTick.deltas.delta_15min = F(2)
    /\ fgt(MsEffectiveDepth, ms.config.mstrike_depth)
    /\ fge(ms.state.strike_volume, ms.config.mstrike_volume)
    /\ \E min_price \in ms.state.min_price_during_strike,
          price_before \in ms.state.price_before_strike :
          fge(fmul(fsub(price_before, min_price), F(100)),
              fmul(ms.config.mstrike_depth, price_before))

\* the bid of a tick: its best_bid, else its price
MsBid == IF is_some(MsTick.best_bid) THEN unwrap(MsTick.best_bid) ELSE MsTick.price
MsBids(self) == [i \in 1..Len(self.state.bid_history) |-> self.state.bid_history[i][2]]
MsLastTen(bids) == IF Len(bids) > 10 THEN SubSeq(bids, Len(bids) - 9, Len(bids)) ELSE bids

\* C30: bid_history is never longer than 10 and, like LastBidEMA, is updated
\* before the detection check; LastBidEMA is undefined while fewer than 4 bid
\* samples exist, so each of the first three ticks returns NoAction; from Idle
\* a tick opens Tracking exactly when its price is below the LastBidEMA updated
\* on that tick, price_before_strike is that value, and the opening tick
\* returns NoAction.
C30_TickOrdering ==
    /\ Len(ms.state.bid_history) <= 10
    /\ Len(ms.state.bid_history) < 4 => ms.state.last_bid_ema = None
    /\ ms_call.op = "on_tick" =>
          /\ MsBids(ms) = MsLastTen(Append(MsBids(ms_pre), MsBid))
          /\ ms.state.last_bid_ema =
                update_last_bid_ema([ms_pre EXCEPT !.state.bid_history = ms.state.bid_history],
                                    MsBid).state.last_bid_ema
          /\ ms_n <= 3 => ms_call.ret = Some(MStrikeSignal_NoAction)
          /\ (~MsPositioned(ms_pre) /\ MsIdleStrike(ms_pre)) =>
                /\ is_some(ms.state.min_price_during_strike)
                      <=> \E ema \in ms.state.last_bid_ema : flt(MsTick.price, ema)
                /\ is_some(ms.state.min_price_during_strike) =>
                      /\ ms.state.price_before_strike = ms.state.last_bid_ema
                      /\ ms.state.min_price_during_strike = Some(MsTick.price)
                      /\ ms_call.ret = Some(MStrikeSignal_NoAction)

\* with a full bid_history, a tick from Idle opened Tracking on a price that is
\* below the LastBidEMA updated on that tick and not below the one before it
C30_Witness ==
    /\ ms_call.op = "on_tick"
    /\ Len(ms_pre.state.bid_history) = 10
    /\ ~MsPositioned(ms_pre)
    /\ MsIdleStrike(ms_pre)
    /\ MsTracking(ms)
    /\ \E before \in ms_pre.state.last_bid_ema : ~flt(MsTick.price, before)
    /\ \E ema \in ms.state.last_bid_ema : flt(MsTick.price, ema)

(***************************************************************************)
(* HookStrategy: the claims                                                *)
(***************************************************************************)
HkTick == unwrap(hk_call.arg)
\* the last call was on_tick() and it returned a signal of this kind
HkReturned(sig) == hk_call.op = "on_tick" /\ \E r \in hk_call.ret : r.sig = sig
HkPositioned(self) == is_some(self.state.buy_price)
HkCorridorSet(self) ==
    is_some(self.state.corridor_upper) /\ is_some(self.state.corridor_lower)
\* the buy order of a detection is live: placed, with no fill reported
HkOrderLive ==
    /\ hk_pre.pending
    /\ ~HkPositioned(hk_pre.self)
    /\ HkCorridorSet(hk_pre.self)

\* C18: after on_sell_filled is called with a position held, the strategy has
\* no position, no active order, no detection flag (strike_detected false, no
\* detection time) and no corridor, and a new detection is permitted on the
\* next tick.
C18_SellFilledIdle ==
    (hk_call.op = "on_sell_filled" /\ HkPositioned(hk_pre.self)) =>
        /\ hk.state.buy_price = None
        /\ hk.state.position_size = F(0)
        /\ hk.state.active_order_id = None
        /\ ~hk.state.strike_detected
        /\ hk.state.strike_detection_time = None
        /\ hk.state.corridor_upper = None
        /\ hk.state.corridor_lower = None
        /\ hk.state.initial_buy_price = None
        /\ \A step \in HkSteps :
              ~hk.state.strike_detected \/ can_detect_again(hk, hk_now + step)

\* C19: while the buy order of a detection is live (PlaceBuy returned, no fill
\* reported, corridor set), every tick with price <= corridor lower returns
\* ReplaceBuy{new_price = lower * 0.99} and every tick with price >= corridor
\* upper returns ReplaceBuy{new_price = upper * 0.99}.
C19_CorridorTracking ==
    (hk_call.op = "on_tick" /\ HkOrderLive) =>
        LET lower == unwrap(hk_pre.self.state.corridor_lower)
            upper == unwrap(hk_pre.self.state.corridor_upper)
        IN  /\ fle(HkTick.price, lower) =>
                   hk_call.ret = Some(HookSignal_ReplaceBuy(fmul(lower, Num(99, 100))))
            /\ (~fle(HkTick.price, lower) /\ fge(HkTick.price, upper)) =>
                   hk_call.ret = Some(HookSignal_ReplaceBuy(fmul(upper, Num(99, 100))))

\* C20: in every state in which the corridor is set, a tick whose price lies
\* strictly between corridor lower and corridor upper never makes on_tick
\* return ReplaceBuy.
C20_InsideCorridorNoReplace ==
    ( /\ hk_call.op = "on_tick"
      /\ HkCorridorSet(hk_pre.self)
      /\ fgt(HkTick.price, unwrap(hk_pre.self.state.corridor_lower))
      /\ flt(HkTick.price, unwrap(hk_pre.self.state.corridor_upper)) )
    => ~HkReturned("ReplaceBuy")

\* a tick strictly inside the corridor arrived while the order was live, and
\* on_tick returned NoAction
C20_Witness ==
    /\ hk_call.op = "on_tick"
    /\ HkOrderLive
    /\ fgt(HkTick.price, unwrap(hk_pre.self.state.corridor_lower))
    /\ flt(HkTick.price, unwrap(hk_pre.self.state.corridor_upper))
    /\ hk_call.ret = Some(HookSignal_NoAction)

\* the prices in the window, its highest and its lowest
HkWindowPrices(self) ==
    { self.state.price_window[i][2] : i \in 1..Len(self.state.price_window) }
HkHighest(prices) == CHOOSE p \in prices : \A q \in prices : fle(q, p)
HkLowest(prices) == CHOOSE p \in prices : \A q \in prices : fle(p, q)
\* depth = ((max - min)/max) * 100 compared with a percentage, without dividing
HkDepthAtLeast(self, percent) ==
    LET prices == HkWindowPrices(self)
    IN  fge(fmul(fsub(HkHighest(prices), HkLowest(prices)), F(100)),
            fmul(percent, HkHighest(prices)))
HkDepthAtMost(self, percent) ==
    LET prices == HkWindowPrices(self)
    IN  fle(fmul(fsub(HkHighest(prices), HkLowest(prices)), F(100)),
            fmul(percent, HkHighest(prices)))
\* the detection condition of section 4.3 on the window of this strategy
HkDepthQualifies(self) ==
    /\ Len(self.state.price_window) >= 2
    /\ HkDepthAtLeast(self, self.config.hook_detect_depth)
    /\ \/ self.config.hook_detect_depth_max = F(0)
       \/ HkDepthAtMost(self, self.config.hook_detect_depth_max)
\* no detection yet, or the last one is at least hook_time_frame old
HkDetectionPermitted(self, timestamp) ==
    \/ ~self.state.strike_detected
    \/ \A t \in self.state.strike_detection_time :
          timestamp - t >= self.config.hook_time_frame
\* the last call was an on_tick() that detected
HkFired ==
    /\ hk_call.op = "on_tick"
    /\ hk.state.strike_detected
    /\ hk.state.strike_detection_time = Some(HkTick.timestamp)
HkSizePasses(self) == fge(calculate_order_size(self), self.config.min_reduced_size)
HkDetectionState(self) ==
    << self.state.strike_detected, self.state.strike_detection_time,
       self.state.corridor_upper, self.state.corridor_lower,
       self.state.initial_buy_price >>

\* C21: with no position held and detection permitted, on_tick detects if and
\* only if the window holds at least 2 points and depth >= hook_detect_depth
\* and (hook_detect_depth_max = 0 or depth <= hook_detect_depth_max), and then
\* returns PlaceBuy exactly when the size check passes; a depth equal to
\* hook_detect_depth detects, a window with a single point never does.
C21_Detection ==
    ( /\ hk_call.op = "on_tick"
      /\ ~HkPositioned(hk_pre.self)
      /\ HkDetectionPermitted(hk_pre.self, HkTick.timestamp) )
    => /\ HkFired <=> HkDepthQualifies(hk)
       /\ HkReturned("PlaceBuy") <=> (HkDepthQualifies(hk) /\ HkSizePasses(hk))
       /\ Len(hk.state.price_window) = 1 => ~HkFired

\* a window whose depth is exactly hook_detect_depth, and exactly
\* hook_detect_depth_max, detected and returned PlaceBuy
C21_Witness ==
    /\ HkFired
    /\ HkReturned("PlaceBuy")
    /\ ~HkPositioned(hk_pre.self)
    /\ HkDepthAtMost(hk, hk.config.hook_detect_depth)
    /\ hk.config.hook_detect_depth_max = hk.config.hook_detect_depth

\* C22: once a detection has happened, no tick whose timestamp is less than
\* hook_time_frame after strike_detection_time produces a new detection or a
\* PlaceBuy; two successive detections are at least hook_time_frame apart.
C22_Gating ==
    hk_call.op = "on_tick" =>
        \A t0 \in hk_pre.self.state.strike_detection_time :
            /\ HkTick.timestamp - t0 < hk.config.hook_time_frame =>
                  /\ HkDetectionState(hk) = HkDetectionState(hk_pre.self)
                  /\ ~HkReturned("PlaceBuy")
            /\ \A t1 \in hk.state.strike_detection_time :
                  t1 # t0 => t1 - t0 >= hk.config.hook_time_frame

\* a tick came less than hook_time_frame after a detection, with no position
\* held and a window deep enough to detect, and on_tick returned NoAction
C22_Witness ==
    /\ hk_call.op = "on_tick"
    /\ ~HkPositioned(hk_pre.self)
    /\ \E t0 \in hk_pre.self.state.strike_detection_time :
          /\ HkTick.timestamp - t0 > 0
          /\ HkTick.timestamp - t0 < hk.config.hook_time_frame
    /\ HkDepthQualifies(hk)
    /\ HkSizePasses(hk)
    /\ hk_call.ret = Some(HookSignal_NoAction)

\* C23: when the window qualifies for a detection but the reduced order size
\* is below min_reduced_size, on_tick returns NoAction and strike_detected,
\* strike_detection_time, the corridor and initial_buy_price are as they were
\* before the tick.
C23_AbortLeavesNoTrace ==
    ( /\ hk_call.op = "on_tick"
      /\ ~HkPositioned(hk_pre.self)
      /\ HkDetectionPermitted(hk_pre.self, HkTick.timestamp)
      /\ HkDepthQualifies(hk)
      /\ ~HkSizePasses(hk) )
    => /\ hk_call.ret = Some(HookSignal_NoAction)
       /\ HkDetectionState(hk) = HkDetectionState(hk_pre.self)

\* two strategies that differ only in these three fields
HkAntiPumpValues == BOOLEAN
HkDropMinValues == {F(0), F(1)}
HkDropMaxValues == {F(0), F(2)}
HkWithFilters(self, anti_pump, drop_min, drop_max) ==
    [self EXCEPT !.config.hook_anti_pump = anti_pump,
                 !.config.hook_drop_min = drop_min,
                 !.config.hook_drop_max = drop_max]

\* C24: hook_anti_pump, hook_drop_min and hook_drop_max have no effect: from
\* states that differ only in these fields, every call returns the same signal
\* and leaves states that differ only in these fields.
C24_FiltersNoEffect ==
    \A anti_pump \in HkAntiPumpValues, drop_min \in HkDropMinValues,
       drop_max \in HkDropMaxValues :
        \A twin \in {HkWithFilters(hk_pre.self, anti_pump, drop_min, drop_max)} :
        \A same \in {HkWithFilters(hk, anti_pump, drop_min, drop_max)} :
            /\ hk_call.op = "on_tick" =>
                  \E deltas \in MsDeltas :
                  \A r \in {HookStrategy_on_tick(twin, HkTick, deltas)} :
                      r.self = same /\ Some(r.ret) = hk_call.ret
            /\ hk_call.op = "on_buy_filled" =>
                  HookStrategy_on_buy_filled(twin, unwrap(hk_call.arg).price,
                                             unwrap(hk_call.arg).size) = same
            /\ hk_call.op = "on_sell_filled" =>
                  \A r \in {HookStrategy_on_sell_filled(twin, hk_now)} :
                      r.self = same /\ r.ret = hk_call.ret

\* a strategy with all three filters switched on detected and returned PlaceBuy
C24_Witness ==
    /\ hk.config.hook_anti_pump
    /\ fgt(hk.config.hook_drop_min, F(0))
    /\ fgt(hk.config.hook_drop_max, F(0))
    /\ HkFired
    /\ HkReturned("PlaceBuy")

\* the ticks delivered so far whose timestamp is at least cutoff, in order
HkDelivered(cutoff) == SelectSeq(hk_ticks, LAMBDA t : t.timestamp >= cutoff)

\* C31: after every on_tick with tick time now, price_window and volume_window
\* hold exactly the ticks delivered so far whose timestamp >= now -
\* hook_time_frame, in order; the two windows have the same length and the
\* same timestamps position by position, and the current tick is their last
\* element.
C31_WindowMaintenance ==
    hk_call.op = "on_tick" =>
        LET kept == HkDelivered(HkTick.timestamp - hk.config.hook_time_frame)
            price_window == hk.state.price_window
            volume_window == hk.state.volume_window
        IN  /\ price_window = [i \in 1..Len(kept) |-> <<kept[i].timestamp, kept[i].price>>]
            /\ volume_window = [i \in 1..Len(kept) |-> <<kept[i].timestamp, kept[i].volume>>]
            /\ Len(price_window) = Len(volume_window)
            /\ \A i \in 1..Len(price_window) : price_window[i][1] = volume_window[i][1]
            /\ Len(price_window) >= 1
            /\ price_window[Len(price_window)] = <<HkTick.timestamp, HkTick.price>>
            /\ volume_window[Len(volume_window)] = <<HkTick.timestamp, HkTick.volume>>

\* a tick has been dropped from the windows, the oldest tick kept is exactly
\* hook_time_frame old, and two of the ticks kept have the same timestamp
C31_Witness ==
    /\ hk_call.op = "on_tick"
    /\ Len(hk.state.price_window) < Len(hk_ticks)
    /\ hk.state.price_window[1][1] = HkTick.timestamp - hk.config.hook_time_frame
    /\ \E i \in 1..(Len(hk.state.price_window) - 1) :
          hk.state.price_window[i][1] = hk.state.price_window[i + 1][1]

\* the quantities of the corridor table of section 4.3, from the window and
\* the configuration of this strategy: max, min, cur, depth, rollback, d
HkMax(self) == HkHighest(HkWindowPrices(self))
HkMin(self) == HkLowest(HkWindowPrices(self))
HkCur(self) == self.state.price_window[Len(self.state.price_window)][2]
HkDepth(self) == fquo(fmul(fsub(HkMax(self), HkMin(self)), F(100)), HkMax(self))
HkRollback(self) ==
    fsub(HkMax(self),
         fquo(fmul(fsub(HkMax(self), HkMin(self)), self.config.hook_price_roll_back), F(100)))
HkD(self) == fquo(fmul(HkDepth(self), self.config.hook_price_distance), F(100))
\* x * (percent/100)
HkPercentOf(percent, x) == fquo(fmul(x, percent), F(100))
\* the row <<upper, lower, initial>> of the table for this mode
HkTableRow(self, mode) ==
    LET max == HkMax(self)
        min == HkMin(self)
        cur == HkCur(self)
        rollback == HkRollback(self)
        d == HkD(self)
        initial_pct == self.config.hook_initial_price
        initial0 == fadd(min, HkPercentOf(initial_pct, fsub(max, min)))
        initial4 == fadd(min, HkPercentOf(initial_pct, fsub(rollback, min)))
    IN  CASE mode = 0 -> <<max, min, initial0>>
          [] mode = 1 -> <<rollback, min,
                           fsub(rollback, HkPercentOf(initial_pct, fsub(rollback, min)))>>
          [] mode = 2 -> <<fadd(initial0, HkPercentOf(d, max)),
                           fsub(initial0, HkPercentOf(d, max)), initial0>>
          [] mode = 3 -> <<fadd(cur, HkPercentOf(d, cur)), fsub(cur, HkPercentOf(d, cur)),
                           fsub(cur, HkPercentOf(initial_pct, cur))>>
          [] mode = 4 ->
               LET half == fquo(fadd(initial4, rollback), F(2))
                   below == fsub(initial4, HkPercentOf(d, max))
               IN  <<IF fgt(half, initial4) THEN half ELSE initial4,
                     IF flt(below, initial4) THEN below ELSE initial4, initial4>>

\* C32: the triple (upper, lower, initial) set by a detection is the row of the
\* table of section 4.3 for hook_interpolate in 0..4, with d = depth *
\* price_distance/100 and cur the latest windowed price, and the row of mode 0
\* for any hook_interpolate > 4; the PlaceBuy of the detection carries price =
\* initial.
C32_CorridorTable ==
    HkFired =>
        LET mode == IF hk.config.hook_interpolate > 4 THEN 0 ELSE hk.config.hook_interpolate
            row == HkTableRow(hk, mode)
        IN  /\ hk.state.corridor_upper = Some(row[1])
            /\ hk.state.corridor_lower = Some(row[2])
            /\ hk.state.initial_buy_price = Some(row[3])
            /\ \A r \in hk_call.ret : r.sig = "PlaceBuy" => r.price = row[3]

\* a detection in mode 4 returned PlaceBuy at the initial price of its row,
\* which differs from the row of mode 0
C32_Witness ==
    /\ HkFired
    /\ hk.config.hook_interpolate = 4
    /\ HkReturned("PlaceBuy")
    /\ hk.state.initial_buy_price = Some(HkTableRow(hk, 4)[3])
    /\ HkTableRow(hk, 4) # HkTableRow(hk, 0)

\* C35: after every detection, in every mode, with hook_initial_price,
\* hook_price_distance and hook_price_roll_back in [0, 100]:
\* corridor_lower <= initial_buy_price <= corridor_upper.
C35_InitialInsideCorridor ==
    ( /\ HkFired
      /\ \A percent \in {hk.config.hook_initial_price, hk.config.hook_price_distance,
                         hk.config.hook_price_roll_back} :
            fle(F(0), percent) /\ fle(percent, F(100)) )
    => \E lower \in hk.state.corridor_lower, initial \in hk.state.initial_buy_price,
          upper \in hk.state.corridor_upper :
          fle(lower, initial) /\ fle(initial, upper)

\* C36: whenever a detection fires, the window maximum was observed no later
\* than the window minimum: some entry holding the maximum precedes, or is, an
\* entry holding the minimum.
C36_FiresOnlyOnDrop ==
    HkFired =>
        \E i \in 1..Len(hk.state.price_window) : \E j \in i..Len(hk.state.price_window) :
            /\ hk.state.price_window[i][2] = HkMax(hk)
            /\ hk.state.price_window[j][2] = HkMin(hk)

\* C39: after on_tick has returned PlaceBuy it returns no second PlaceBuy
\* until that order has been filled and the position closed: a PlaceBuy is
\* returned only with no earlier PlaceBuy unfilled and no position held.
C39_OneOutstandingBuy ==
    HkReturned("PlaceBuy") => (~hk_pre.pending /\ ~HkPositioned(hk_pre.self))

\* target = ref * (1 + (strike_depth * hook_sell_level/100)/100), ref =
\* strike_min_price when hook_sell_fixed, else the filled buy_price
HkSellTarget(self) ==
    LET ref == IF self.config.hook_sell_fixed
               THEN self.state.strike_min_price
               ELSE unwrap(self.state.buy_price)
    IN  fadd(ref, HkPercentOf(HkPercentOf(self.config.hook_sell_level, self.state.strike_depth),
                              ref))

\* C40: while a position is held, on_tick returns PlaceSell{price = target,
\* size = position_size} on every tick with price >= target and NoAction on
\* every other tick.
C40_SellRule ==
    (hk_call.op = "on_tick" /\ HkPositioned(hk_pre.self)) =>
        hk_call.ret =
            Some(IF fge(HkTick.price, HkSellTarget(hk_pre.self))
                 THEN HookSignal_PlaceSell(HkSellTarget(hk_pre.self),
                                           hk_pre.self.state.position_size)
                 ELSE HookSignal_NoAction)

\* with hook_sell_fixed, a position bought after a detection was held through a
\* tick below the target and PlaceSell was returned on the next tick, at the
\* target taken from strike_min_price, which is not the one taken from buy_price
C40_Witness ==
    /\ HkReturned("PlaceSell")
    /\ hk.config.hook_sell_fixed
    /\ hk_pre.self.state.strike_detected
    /\ Len(hk_ticks) >= 2
    /\ HkPositioned(hk_pre.self)
    /\ flt(hk_ticks[Len(hk_ticks) - 1].price, HkSellTarget(hk_pre.self))
    /\ \E r \in hk_call.ret :
          /\ r.price = fmul(hk.state.strike_min_price, Num(10375, 10000))
          /\ r.price # fmul(unwrap(hk_pre.self.state.buy_price), Num(10375, 10000))
          /\ r.size = hk_pre.self.state.position_size

\* a fill has been reported since construction or since the last
\* on_sell_filled: active_order_id is written by on_buy_filled (Some) and by
\* on_sell_filled (None) only
MsFilled(self) == is_some(self.state.active_order_id)
HkFilled(self) == is_some(self.state.active_order_id)

\* C37: in both strategies on_tick returns PlaceSell only if on_buy_filled has
\* been called since construction or since the last on_sell_filled; a PlaceBuy
\* not confirmed by on_buy_filled never leads to a PlaceSell.
C37_SellOnlyAfterFill ==
    /\ MsReturned("PlaceSell") => MsFilled(ms_pre)
    /\ HkReturned("PlaceSell") => HkFilled(hk_pre.self)

\* the detection state of each strategy
MsStrikeTracked(self) ==
    <<self.state.min_price_during_strike, self.state.price_before_strike,
      self.state.strike_volume>>
HkStrikeAndCorridor(self) ==
    <<self.state.strike_detected, self.state.strike_detection_time,
      self.state.strike_depth, self.state.strike_min_price,
      self.state.strike_max_price, self.state.strike_rollback_price,
      self.state.corridor_upper, self.state.corridor_lower,
      self.state.initial_buy_price>>
\* on_tick was called with buy_price set, and returned
MsTickPositioned == ms_call.op = "on_tick" /\ MsPositioned(ms_pre) /\ ~MsPanicked
HkTickPositioned == hk_call.op = "on_tick" /\ HkPositioned(hk_pre.self) /\ ~HkPanicked

\* C38: in both strategies, while buy_price is set, on_tick returns only
\* NoAction or PlaceSell, leaves the detection state as it was and leaves the
\* position held; a further on_buy_filled leaves it held too, so that only
\* on_sell_filled ends it.
C38_NoBuyWhilePositioned ==
    /\ MsTickPositioned =>
          /\ MsReturned("NoAction") \/ MsReturned("PlaceSell")
          /\ MsStrikeTracked(ms) = MsStrikeTracked(ms_pre)
          /\ MsPositioned(ms)
    /\ HkTickPositioned =>
          /\ HkReturned("NoAction") \/ HkReturned("PlaceSell")
          /\ HkStrikeAndCorridor(hk) = HkStrikeAndCorridor(hk_pre.self)
          /\ HkPositioned(hk)
    /\ (ms_call.op = "on_buy_filled" /\ MsPositioned(ms_pre)) => MsPositioned(ms)
    /\ (hk_call.op = "on_buy_filled" /\ HkPositioned(hk_pre.self)) => HkPositioned(hk)

\* a tick below the tracked minimum arrives while an MStrike position is held
C38_Witness ==
    /\ MsTickPositioned
    /\ MsReturned("NoAction")
    /\ is_some(ms.state.min_price_during_strike)
    /\ flt(unwrap(ms_call.arg).price, unwrap(ms.state.min_price_during_strike))

(***************************************************************************)
(* PanicSellManager: the claims                                            *)
(***************************************************************************)
PsArg == unwrap(ps_call.arg)
\* |T|
PsMagnitude(t) == IF flt(t, F(0)) THEN fsub(F(0), t) ELSE t
\* current < buy * (1 - |T|/100), both sides multiplied by 100
PsDropCondition ==
    \E t \in psm.auto_panic_if_drop :
        flt(fmul(PsArg.current_price, F(100)),
            fmul(PsArg.buy_price, fsub(F(100), PsMagnitude(t))))
\* best_bid < buy * (1 + T/100), both sides multiplied by 100
PsBidCondition ==
    \E t \in psm.panic_if_bids_drop : \E bid \in PsArg.best_bid :
        flt(fmul(bid, F(100)), fmul(PsArg.buy_price, fadd(F(100), t)))
PsShouldPanic ==
    /\ psm.enabled
    /\ fgt(PsArg.buy_price, F(0))
    /\ PsDropCondition \/ PsBidCondition
\* buy * drop_to_percent * (1 - spread_percent)
PsTarget ==
    fsub(fmul(PsArg.buy_price, psm.drop_to_percent),
         fmul(fmul(PsArg.buy_price, psm.drop_to_percent), psm.spread_percent))

\* C25: should_panic_sell(buy, current, best_bid) returns
\* Some(buy * drop_to_percent * (1 - spread_percent)) if and only if the
\* manager is enabled, buy > 0, and auto_panic_if_drop = Some(T) with
\* current < buy * (1 - |T|/100) or panic_if_bids_drop = Some(T) with a
\* best_bid < buy * (1 + T/100); in every other case it returns None.
C25_ShouldPanicSell ==
    ps_call.op = "should_panic_sell" =>
        ps_call.ret = Some(IF PsShouldPanic THEN Some(PsTarget) ELSE None)

\* a manager with a negative auto_panic_if_drop panicked on a price more than
\* |T| percent below the buy price, the bid condition not holding
C25_Witness ==
    /\ ps_call.op = "should_panic_sell"
    /\ psm.auto_panic_if_drop = Some(F(-5))
    /\ PsArg.buy_price = F(100)
    /\ PsArg.current_price = F(94)
    /\ ~PsBidCondition
    /\ ps_call.ret = Some(Some(Num(50490, 500)))

(***************************************************************************)
(* LiquidationControl: the claims                                          *)
(***************************************************************************)
LqArg == unwrap(lq_call.arg)
\* liq = entry * (1 -/+ (1 - mm_rate)/leverage), minus for long, plus for short
LqLiq(self, position_size, entry_price, leverage) ==
    LET share == fquo(fsub(F(1), self.maintenance_margin_rate), leverage)
    IN  IF fgt(position_size, F(0))
        THEN fsub(entry_price, fmul(entry_price, share))
        ELSE fadd(entry_price, fmul(entry_price, share))
\* distance = (mark - liq)/mark*100 for long, (liq - mark)/mark*100 for short
LqDistance(self, position_size, entry_price, mark_price, leverage) ==
    LET liq == LqLiq(self, position_size, entry_price, leverage)
    IN  IF fgt(position_size, F(0))
        THEN fquo(fmul(fsub(mark_price, liq), F(100)), mark_price)
        ELSE fquo(fmul(fsub(liq, mark_price), F(100)), mark_price)
\* the call is one that is evaluated: enabled, a position, positive prices
LqEvaluated(self, position_size, entry_price, mark_price) ==
    /\ self.enabled
    /\ position_size # F(0)
    /\ fgt(entry_price, F(0))
    /\ fgt(mark_price, F(0))
LqSeverity(warning) ==
    CASE warning = LiquidationWarning_Critical -> 4
      [] warning = LiquidationWarning_High -> 3
      [] warning = LiquidationWarning_Medium -> 2
      [] warning = LiquidationWarning_Low -> 1
      [] warning = LiquidationWarning_None -> 0

\* C26: check_liquidation_risk returns None when disabled, position_size = 0,
\* entry_price <= 0 or mark_price <= 0; otherwise it returns Critical for
\* distance < 5, High for 5 <= distance < 10, Medium for 10 <= distance < 20,
\* Low for 20 <= distance < 30 and None for distance >= 30, so of two evaluated
\* calls on the same control the one with the greater distance never has the
\* greater severity.
C26_LiquidationRisk ==
    lq_call.op = "check_liquidation_risk" =>
        LET a == LqArg
            ret == unwrap(lq_call.ret)
            distance == LqDistance(lq, a.position_size, a.entry_price, a.mark_price, a.leverage)
        IN  IF ~LqEvaluated(lq, a.position_size, a.entry_price, a.mark_price)
            THEN ret = LiquidationWarning_None
            ELSE /\ ret = LiquidationWarning_Critical <=> flt(distance, F(5))
                 /\ ret = LiquidationWarning_High <=> fle(F(5), distance) /\ flt(distance, F(10))
                 /\ ret = LiquidationWarning_Medium <=> fle(F(10), distance) /\ flt(distance, F(20))
                 /\ ret = LiquidationWarning_Low <=> fle(F(20), distance) /\ flt(distance, F(30))
                 /\ ret = LiquidationWarning_None <=> fle(F(30), distance)
                 /\ \A position_size \in LqPositionSizes, entry_price \in LqEntryPrices,
                       mark_price \in LqMarkPrices, leverage \in LqLeverages :
                       ( /\ LqEvaluated(lq, position_size, entry_price, mark_price)
                         /\ fle(distance, LqDistance(lq, position_size, entry_price,
                                                     mark_price, leverage)) )
                       => LqSeverity(check_liquidation_risk(lq, position_size, entry_price,
                                                            mark_price, a.balance, leverage))
                             <= LqSeverity(ret)

\* a long position exactly 10 percent above its liquidation price was rated
\* Medium
C26_Witness ==
    /\ lq_call.op = "check_liquidation_risk"
    /\ lq.enabled
    /\ LqArg.position_size = F(1)
    /\ fgt(LqArg.entry_price, F(0))
    /\ fgt(LqArg.mark_price, F(0))
    /\ LqDistance(lq, LqArg.position_size, LqArg.entry_price, LqArg.mark_price, LqArg.leverage) = F(10)
    /\ lq_call.ret = Some(LiquidationWarning_Medium)

(***************************************************************************)
(* DeltaCalculator: the claims                                             *)
(***************************************************************************)
Histories(self) ==
    {self.price_history, self.btc_price_history, self.market_price_history}

NonDecreasing(h) ==
    \A i \in 1..(Len(h) - 1) : h[i].timestamp <= h[i + 1].timestamp

NoneOlderThan(h, cutoff) ==
    \A i \in 1..Len(h) : h[i].timestamp >= cutoff

\* C8 as claimed: for any tick timestamps and any now, after update(tick, now)
\* no history retains a point with timestamp < now - max_history_duration.
C8_PrunedAsClaimed ==
    \A t \in dc_time : \A h \in Histories(dc) :
        NoneOlderThan(h, t - dc.max_history_duration)

\* C8 amended: for any now, after update(tick, now) a history that is
\* non-decreasing in timestamp (as every history is when ticks arrive in
\* timestamp order) retains no point with timestamp < now - max_history_duration.
C8_Pruned ==
    \A t \in dc_time : \A h \in Histories(dc) :
        NonDecreasing(h) => NoneOlderThan(h, t - dc.max_history_duration)

\* the update at 24 h + 1 min (tick time 16 min) kept the points of minute 1
\* and 16, of which the first is exactly 24 h old
C8_Witness ==
    /\ dc_time = Some(1441)
    /\ Len(dc.price_history) = 2
    /\ dc.price_history[1].timestamp = 1
    /\ dc.price_history[2].timestamp = 16
    /\ dc.btc_price_history # dc.price_history
    /\ ~dc_in_order

\* C9 as claimed: under in-order ingestion (tick timestamps non-decreasing,
\* now = tick time) every history is non-decreasing in timestamp after each
\* update and its oldest entry has a timestamp strictly greater than
\* now - max_history_duration.
C9_InOrderAsClaimed ==
    dc_in_order =>
        \A t \in dc_time : \A h \in Histories(dc) :
            /\ NonDecreasing(h)
            /\ h # << >> => Head(h).timestamp > t - dc.max_history_duration

\* C9 amended: under in-order ingestion every history is non-decreasing in
\* timestamp after each update and its oldest entry has a timestamp greater
\* than or equal to now - max_history_duration (a point exactly
\* max_history_duration old is retained); the symbol and market histories
\* are not empty and end with the tick just delivered.
C9_InOrder ==
    dc_in_order =>
        \A t \in dc_time :
            /\ \A h \in Histories(dc) :
                  /\ NonDecreasing(h)
                  /\ h # << >> => Head(h).timestamp >= t - dc.max_history_duration
            /\ \A h \in {dc.price_history, dc.market_price_history} :
                  h # << >> /\ h[Len(h)].timestamp = t

\* in-order ticks 24 h apart: the older one sits exactly on the cutoff
C9_Witness ==
    /\ dc_in_order
    /\ dc_time = Some(1441)
    /\ Len(dc.price_history) = 2
    /\ Head(dc.price_history).timestamp = 1441 - dc.max_history_duration
    /\ Len(dc.btc_price_history) = 1

\* the start price of a horizon: the earliest retained point (the one nearest
\* the front) with timestamp >= now - W, else the oldest retained point, else
\* the current price
StartPrice(h, current_price, current_time, W) ==
    LET inside == {i \in 1..Len(h) : h[i].timestamp >= current_time - W}
    IN  IF inside # {}
        THEN h[CHOOSE i \in inside : \A j \in inside : i <= j].price
        ELSE IF Len(h) > 0 THEN h[1].price ELSE current_price

\* d = ((current - start) / start) * 100, or 0 for start <= 0
IsDeltaOf(d, current_price, start) ==
    IF start <= 0
    THEN d = F(0)
    ELSE /\ d.k = "num"
         /\ d.d > 0
         /\ d.n * start = (current_price - start) * 100 * d.d

\* C10: calculate_deltas(current_price, now) returns, for each horizon W of
\* 15 min, 1 h, 3 h, ((current - start)/start)*100 for the start price of W;
\* 0 when the history is empty or start <= 0.
C10_Deltas ==
    \A c \in dc_calc :
        LET h  == dc.price_history
            cp == c.current_price
            t  == c.current_time
        IN  /\ IsDeltaOf(c.deltas.delta_15min, cp, StartPrice(h, cp, t, 15))
            /\ IsDeltaOf(c.deltas.delta_hourly, cp, StartPrice(h, cp, t, 60))
            /\ IsDeltaOf(c.deltas.delta_3h, cp, StartPrice(h, cp, t, 180))
            /\ h = << >> =>
                  /\ c.deltas.delta_15min = F(0)
                  /\ c.deltas.delta_hourly = F(0)
                  /\ c.deltas.delta_3h = F(0)

\* one evaluation whose three horizons start at three different points: at
\* minute 61 the 15 min window holds no point of <<(0, price 0), (1, price 2)>>
\* and falls back to the oldest, the 1 h window starts at minute 1, the 3 h
\* window at minute 0
C10_Witness ==
    \E c \in dc_calc :
        /\ c.current_time = 61
        /\ c.current_price = 3
        /\ Len(dc.price_history) = 2
        /\ dc.price_history[1] = PricePoint(0, 0)
        /\ dc.price_history[2] = PricePoint(1, 2)
        /\ c.deltas.delta_15min = F(0)
        /\ c.deltas.delta_hourly = F(50)
        /\ c.deltas.delta_3h = F(0)

====
